---------------------------- MODULE Spec2Model ----------------------------
(***************************************************************************)
(* The character-extraction pipeline of the Codex Sinaiticus font scripts: *)
(*   scripts/improved_extraction.py      (ImprovedExtractor, main)         *)
(*   scripts/fix_character_extraction.py (CharacterExtractor, main)        *)
(*   scripts/pipeline.py                 (ManuscriptProcessor, main)       *)
(*                                                                         *)
(* An image is a record [h, w, ink]: h rows, w columns, and the set ink of *)
(* the pixels <<row, col>> (0-based) whose value is 0; every other pixel   *)
(* of the h x w grid has value 255.  Only these two values ever occur in   *)
(* the binary images the scripts handle.                                   *)
(***************************************************************************)
EXTENDS Integers, Sequences, FiniteSets, TLC

(***************************************************************************)
(* Arithmetic helpers                                                      *)
(***************************************************************************)
Abs(x) == IF x < 0 THEN -x ELSE x

Min2(a, b) == IF a <= b THEN a ELSE b

Max2(a, b) == IF a >= b THEN a ELSE b

SetMin(S) == CHOOSE x \in S : \A y \in S : x <= y

SetMax(S) == CHOOSE x \in S : \A y \in S : x >= y

RECURSIVE SeqSum(_)
SeqSum(s) == IF s = << >> THEN 0 ELSE Head(s) + SeqSum(Tail(s))

(***************************************************************************)
(* Pixel values and the 8-bit operations of cv2.bitwise_and / bitwise_not  *)
(***************************************************************************)
INK == 0

WHITE == 255

RECURSIVE BitAnd(_, _, _)
BitAnd(a, b, bits) ==
    IF bits = 0 THEN 0
    ELSE (IF a % 2 = 1 /\ b % 2 = 1 THEN 1 ELSE 0)
         + 2 * BitAnd(a \div 2, b \div 2, bits - 1)

\* cv2.bitwise_and on one pair of uint8 pixels
bitwise_and_px(a, b) == BitAnd(a, b, 8)

\* cv2.bitwise_not on one uint8 pixel
bitwise_not_px(a) == 255 - a

(***************************************************************************)
(* Images                                                                  *)
(***************************************************************************)
Pixels(h, w) == (0 .. h - 1) \X (0 .. w - 1)

Val(img, p) == IF p \in img.ink THEN INK ELSE WHITE

\* an image from a pixel-value function f over the h x w grid
FromVals(h, w, f(_)) == [h |-> h, w |-> w, ink |-> {p \in Pixels(h, w) : f(p) = INK}]

bitwise_and(A, B) ==
    LET v(p) == bitwise_and_px(Val(A, p), Val(B, p))
    IN  FromVals(A.h, A.w, v)

bitwise_not(A) ==
    LET v(p) == bitwise_not_px(Val(A, p))
    IN  FromVals(A.h, A.w, v)

\* numpy slicing img[r1:r2, c1:c2] (bounds already inside the image)
Crop(img, r1, r2, c1, c2) ==
    [h |-> r2 - r1, w |-> c2 - c1,
     ink |-> {<<p[1] - r1, p[2] - c1>> :
                p \in {q \in img.ink : q[1] >= r1 /\ q[1] < r2 /\ q[2] >= c1 /\ q[2] < c2}}]

\* cv2.copyMakeBorder(img, pad, pad, pad, pad, BORDER_CONSTANT, value=255)
copyMakeBorder(img, pad) ==
    [h |-> img.h + 2 * pad, w |-> img.w + 2 * pad,
     ink |-> {<<p[1] + pad, p[2] + pad>> : p \in img.ink}]

\* np.sum(img == 0): the number of ink pixels
InkCount(img) == Cardinality(img.ink)

\* np.sum(img == 0, axis=1): ink pixels per row
RowProjection(img) ==
    [r \in 1 .. img.h |-> Cardinality({p \in img.ink : p[1] = r - 1})]

\* np.sum(img == 0, axis=0): ink pixels per column
ColProjection(img) ==
    [c \in 1 .. img.w |-> Cardinality({p \in img.ink : p[2] = c - 1})]

(***************************************************************************)
(* OpenCV neighbourhood operations on two-valued images                    *)
(***************************************************************************)
\* cv2.getStructuringElement(cv2.MORPH_ELLIPSE, (3,3)): the cross
\* [[0,1,0],[1,1,1],[0,1,0]], as offsets <<dy, dx>> from the anchor (1,1)
Ellipse3 == {<<-1, 0>>, <<0, -1>>, <<0, 0>>, <<0, 1>>, <<1, 0>>}

\* cv2.getStructuringElement(cv2.MORPH_ELLIPSE, (2,2)): [[0,1],[1,1]],
\* anchor (1,1)
Ellipse2 == {<<-1, 0>>, <<0, -1>>, <<0, 0>>}

\* np.ones((2,2), np.uint8), anchor (1,1)
Ones2 == {<<-1, -1>>, <<-1, 0>>, <<0, -1>>, <<0, 0>>}

InImage(h, w, p) == p[1] >= 0 /\ p[1] < h /\ p[2] >= 0 /\ p[2] < w

\* cv2.dilate: the maximum over the kernel footprint; pixels outside the
\* image do not count.  A pixel stays ink (0) only if the whole footprint
\* inside the image is ink.
dilate(img, kernel) ==
    [img EXCEPT !.ink =
        {p \in img.ink :
            \A d \in kernel :
                LET q == <<p[1] + d[1], p[2] + d[2]>>
                IN  InImage(img.h, img.w, q) => q \in img.ink}]

\* cv2.erode: the minimum over the kernel footprint; a pixel becomes ink
\* (0) as soon as one footprint pixel is ink.
erode(img, kernel) ==
    [img EXCEPT !.ink =
        {q \in {<<p[1] - d[1], p[2] - d[2]>> : p \in img.ink, d \in kernel} :
            InImage(img.h, img.w, q)}]

\* cv2.morphologyEx(img, cv2.MORPH_CLOSE, kernel)
morph_close(img, kernel) == erode(dilate(img, kernel), kernel)

\* cv2.morphologyEx(img, cv2.MORPH_OPEN, kernel)
morph_open(img, kernel) == dilate(erode(img, kernel), kernel)

Clamp(x, lo, hi) == IF x < lo THEN lo ELSE IF x > hi THEN hi ELSE x

\* cv2.medianBlur(img, 3): the median of the 3x3 neighbourhood with the
\* border replicated; on a two-valued image, ink iff at least 5 of the 9
\* neighbourhood values are ink.
medianBlur3(img) ==
    LET cand == {q \in {<<p[1] + dy, p[2] + dx>> :
                          p \in img.ink, dy \in {-1, 0, 1}, dx \in {-1, 0, 1}} :
                    InImage(img.h, img.w, q)}
        n(p) == Cardinality({d \in {-1, 0, 1} \X {-1, 0, 1} :
                    <<Clamp(p[1] + d[1], 0, img.h - 1),
                      Clamp(p[2] + d[2], 0, img.w - 1)>> \in img.ink})
    IN  [img EXCEPT !.ink = {p \in cand : n(p) >= 5}]

(***************************************************************************)
(* cv2.connectedComponentsWithStats(..., connectivity=8) on the ink of an  *)
(* image (the scripts pass bitwise_not(img), whose non-zero pixels are the *)
(* ink).  Components are numbered in raster order of their first pixel.    *)
(***************************************************************************)
Nbrs8(p) == {<<p[1] + dy, p[2] + dx>> : dy \in {-1, 0, 1}, dx \in {-1, 0, 1}}

RECURSIVE Flood(_, _, _)
Flood(frontier, seen, ink) ==
    IF frontier = {} THEN seen
    ELSE LET next == (UNION {Nbrs8(p) : p \in frontier} \cap ink) \ seen
         IN  Flood(next, seen \cup next, ink)

RasterFirst(S) ==
    LET r == SetMin({p[1] : p \in S})
    IN  <<r, SetMin({p[2] : p \in {q \in S : q[1] = r}})>>

RECURSIVE ComponentsOf(_)
ComponentsOf(ink) ==
    IF ink = {} THEN << >>
    ELSE LET s == RasterFirst(ink)
             c == Flood({s}, {s}, ink)
         IN  <<c>> \o ComponentsOf(ink \ c)

\* one row of stats: x, y, w, h, area of a component (a set of pixels)
Stats(c) ==
    LET rows == {p[1] : p \in c}
        cols == {p[2] : p \in c}
    IN  [x |-> SetMin(cols), y |-> SetMin(rows),
         w |-> SetMax(cols) - SetMin(cols) + 1,
         h |-> SetMax(rows) - SetMin(rows) + 1,
         area |-> Cardinality(c)]

\* num_labels - 1 of connectedComponentsWithStats(bitwise_not(img))
NumComponents(img) == Len(ComponentsOf(img.ink))

(***************************************************************************)
(* Line Detector                                                           *)
(*                                                                         *)
(* scipy.ndimage.gaussian_filter1d(proj, sigma): a correlation with the    *)
(* normalised Gaussian weights of radius int(4*sigma + 0.5), the signal    *)
(* extended by reflection (mode 'reflect': d c b a | a b c d | d c b a).   *)
(* The weights are kept in fixed point, in units of 1/GaussScale.          *)
(***************************************************************************)
\* sigma = 2, radius 8
GaussKernel2 ==
    <<7, 44, 222, 876, 2700, 6476, 12099, 17604, 19944, 17604, 12099, 6476, 2700, 876, 222, 44, 7>>

\* sigma = 3, radius 12
GaussKernel3 ==
    <<4, 16, 51, 148, 380, 874, 1800, 3316, 5467, 8066, 10649, 12580, 13298, 12580, 10649, 8066, 5467, 3316, 1800, 874, 380, 148, 51, 16, 4>>

GaussScale == SeqSum(GaussKernel2)

RECURSIVE Reflect(_, _)
Reflect(i, n) ==
    IF i < 0 THEN Reflect(-i - 1, n)
    ELSE IF i >= n THEN Reflect(2 * n - 1 - i, n)
    ELSE i

\* the smoothed signal, times GaussScale
gaussian_filter1d(proj, kernel) ==
    LET n == Len(proj)
        radius == (Len(kernel) - 1) \div 2
    IN  [r \in 1 .. n |->
            SeqSum([k \in 1 .. Len(kernel) |->
                kernel[k] * proj[Reflect(r - 1 + k - 1 - radius, n) + 1]])]

\* the k-th smallest (k from 0) of the values s[i], i \in idx
KthSmallest(s, idx, k) ==
    LET i == CHOOSE j \in idx :
                /\ Cardinality({m \in idx : s[m] < s[j]}) <= k
                /\ Cardinality({m \in idx : s[m] <= s[j]}) > k
    IN  s[i]

\* np.percentile(s[idx], q), q = 100 * qnum / qden, times qden: linear
\* interpolation between the two neighbouring order statistics,
\*   percentile = a[lo] + ((n-1) * qnum / qden - lo) * (a[lo+1] - a[lo])
Percentile(s, idx, qnum, qden) ==
    LET n == Cardinality(idx)
        lo == ((n - 1) * qnum) \div qden
        rem == ((n - 1) * qnum) % qden
        a == KthSmallest(s, idx, lo)
        b == IF rem = 0 THEN a ELSE KthSmallest(s, idx, lo + 1)
    IN  qden * a + rem * (b - a)

\* AbovePercentile gone wrong: the percentile is counted from the top
AbovePercentileFromTop(s, idx, qnum, qden) ==
    LET threshold == Percentile(s, idx, qden - qnum, qden)
    IN  [r \in 1 .. Len(s) |-> qden * s[r] > threshold]

\* "val > threshold" for every row, threshold being that percentile
AbovePercentile(s, idx, qnum, qden) ==
    LET threshold == Percentile(s, idx, qnum, qden)
    IN  [r \in 1 .. Len(s) |-> qden * s[r] > threshold]

\* RowScan gone wrong: a finished run is put in front of the list
RECURSIVE RowScanPrepend(_, _, _, _, _, _, _)
RowScanPrepend(above, i, in_line, line_start, lines, minlen, pad) ==
    LET flips == {r \in i .. Len(above) - 1 : above[r + 1] # in_line}
        r == SetMin(flips)
    IN  IF flips = {} THEN lines
        ELSE IF ~in_line
             THEN RowScanPrepend(above, r + 1, TRUE, r, lines, minlen, pad)
        ELSE RowScanPrepend(above, r + 1, FALSE, line_start,
                 IF r - line_start >= minlen
                 THEN <<<<Max2(0, line_start - pad), Min2(Len(above), r + pad)>>>> \o lines
                 ELSE lines,
                 minlen, pad)

\* RowScan gone wrong: the padded interval is not cut to the page
RECURSIVE RowScanUnclipped(_, _, _, _, _, _, _)
RowScanUnclipped(above, i, in_line, line_start, lines, minlen, pad) ==
    LET flips == {r \in i .. Len(above) - 1 : above[r + 1] # in_line}
        r == SetMin(flips)
    IN  IF flips = {} THEN lines
        ELSE IF ~in_line
             THEN RowScanUnclipped(above, r + 1, TRUE, r, lines, minlen, pad)
        ELSE RowScanUnclipped(above, r + 1, FALSE, line_start,
                 IF r - line_start >= minlen
                 THEN Append(lines, <<line_start - pad, r + pad>>)
                 ELSE lines,
                 minlen, pad)

\* the row scan shared by detect_text_regions, find_text_lines and
\* detect_lines, from row i on: above[r+1] is "val > threshold" for row r.
\* Only a row whose "val > threshold" differs from in_line changes the
\* loop's state, so the scan goes from one such row to the next; a run
\* that is still open after the last row is dropped, as in the loop.
RECURSIVE RowScan(_, _, _, _, _, _, _)
RowScan(above, i, in_line, line_start, lines, minlen, pad) ==
    LET flips == {r \in i .. Len(above) - 1 : above[r + 1] # in_line}
        r == SetMin(flips)
    IN  IF flips = {} THEN lines
        ELSE IF ~in_line
             THEN RowScan(above, r + 1, TRUE, r, lines, minlen, pad)
        ELSE RowScan(above, r + 1, FALSE, line_start,
                 IF r - line_start >= minlen
                 THEN Append(lines, <<Max2(0, line_start - pad),
                                      Min2(Len(above), r + pad)>>)
                 ELSE lines,
                 minlen, pad)

\* improved_extraction.py
improved_min_line_height == 20

\* fix_character_extraction.py
fix_min_line_height == 15

\* pipeline.py: a run counts when "i - line_start > 10"
pipeline_min_line_height == 10

line_pad == 5

\* what np.percentile does with an empty array depends on the numpy
\* release: it raises, or it returns nan
PercentileOfEmpty == {"raise", "nan"}

\* ImprovedExtractor.detect_text_regions; h_proj is an integer array, so
\* the filter's result is cast back to integers.  outcome is what
\* np.percentile does when no smoothed value is positive.
detect_text_regions(binary_img, outcome) ==
    LET h_proj == RowProjection(binary_img)
        sm == gaussian_filter1d(h_proj, GaussKernel2)
        h_smooth == [r \in 1 .. Len(sm) |-> sm[r] \div GaussScale]
        nz == {r \in 1 .. Len(sm) : h_smooth[r] > 0}
        above == AbovePercentile(h_smooth, nz, 1, 5)
        never == [r \in 1 .. Len(sm) |-> FALSE]
    IN  IF nz = {}
        THEN IF outcome = "raise"
             THEN [raised |-> TRUE, lines |-> << >>]
             ELSE [raised |-> FALSE,
                   lines |-> RowScan(never, 0, FALSE, 0, << >>,
                                     improved_min_line_height, line_pad)]
        ELSE [raised |-> FALSE,
              lines |-> RowScan(above, 0, FALSE, 0, << >>,
                                improved_min_line_height, line_pad)]

\* CharacterExtractor.find_text_lines; the projection is a float array
find_text_lines(binary_img) ==
    LET h_projection == RowProjection(binary_img)
        h_smooth == gaussian_filter1d(h_projection, GaussKernel3)
        non_zero == {r \in 1 .. Len(h_smooth) : h_smooth[r] > 0}
        above == AbovePercentile(h_smooth, non_zero, 1, 4)
    IN  IF non_zero = {} THEN << >>
        ELSE RowScan(above, 0, FALSE, 0, << >>, fix_min_line_height, line_pad)

\* "val > threshold" for every row, as detect_text_regions (lines 65-69)
\* and find_text_lines (lines 77-86) compute it on a mask that has ink
above_threshold(v, binary_img) ==
    IF v = "improved"
    THEN LET sm == gaussian_filter1d(RowProjection(binary_img), GaussKernel2)
             h_smooth == [r \in 1 .. Len(sm) |-> sm[r] \div GaussScale]
         IN  AbovePercentile(h_smooth, {r \in 1 .. Len(sm) : h_smooth[r] > 0}, 1, 5)
    ELSE LET h_smooth == gaussian_filter1d(RowProjection(binary_img), GaussKernel3)
         IN  AbovePercentile(h_smooth, {r \in 1 .. Len(h_smooth) : h_smooth[r] > 0}, 1, 4)

\* the maximal runs [s, e) of rows above the threshold, rows counted from 0
Runs(above) ==
    {<<s, SetMin({e \in s + 1 .. Len(above) : e = Len(above) \/ ~above[e + 1]})>> :
        s \in {r \in 0 .. Len(above) - 1 : above[r + 1] /\ (r = 0 \/ ~above[r])}}

\* ManuscriptProcessor.detect_lines: threshold = 10% of the maximum
detect_lines(binary_img) ==
    LET h_projection == RowProjection(binary_img)
        mx == IF Len(h_projection) = 0 THEN 0
              ELSE SetMax({h_projection[r] : r \in 1 .. Len(h_projection)})
        above == [r \in 1 .. Len(h_projection) |-> 10 * h_projection[r] > mx]
    IN  RowScan(above, 0, FALSE, 0, << >>, pipeline_min_line_height + 1, 0)

(***************************************************************************)
(* Quality Scorer.  A score is an exact fraction [num, den], den > 0.      *)
(***************************************************************************)
\* cv2.Canny(img, 50, 150) on a two-valued image: one edge pixel for every
\* ink pixel that has a background pixel among its 8 neighbours; an image
\* of one value has no edge.
Canny(img) ==
    {p \in img.ink :
        \E q \in Nbrs8(p) : InImage(img.h, img.w, q) /\ q \notin img.ink}

ScoreGT(a, b) == a.num * b.den > b.num * a.den

ScoreLT(a, b) == a.num * b.den < b.num * a.den

\* the cutoff 0.3 of both scored variants
quality_threshold == [num |-> 3, den |-> 10]

\* "c['quality_score'] > quality_threshold": the glyph is kept
improved_keeps(q) == ScoreGT(q, quality_threshold)

\* "if char['quality_score'] < 0.3: continue": otherwise the glyph is saved
fix_keeps(q) == ~ScoreLT(q, quality_threshold)

\* ImprovedExtractor.calculate_quality_score:
\*   density = 1 - |ink/size - 0.15| / 0.15      (weight 0.3)
\*   edge    = min(edges/size / 0.05, 1)         (weight 0.3)
\*   connectivity = 1 / max(components, 1)       (weight 0.2)
\*   size_score = 1 if 20 < h < 120 and 15 < w < 100 else 0.5   (weight 0.2)
\* all four over the common denominator 10 * size * n
calculate_quality_score(char_img) ==
    LET size == char_img.h * char_img.w
        ink == InkCount(char_img)
        edges == Cardinality(Canny(char_img))
        n == Max2(NumComponents(char_img), 1)
        size_ok == /\ 20 < char_img.h /\ char_img.h < 120
                   /\ 15 < char_img.w /\ char_img.w < 100
    IN  [num |-> n * (3 * size - Abs(20 * ink - 3 * size))
                 + 3 * n * Min2(20 * edges, size)
                 + 2 * size
                 + size * n * (IF size_ok THEN 2 ELSE 1),
         den |-> 10 * size * n]

\* CharacterExtractor.calculate_quality:
\*   density = 1 if 0.1 <= ink/size <= 0.4 else max(0, 1 - |ink/size - 0.25| * 2)
\*   connectivity = 1 / max(components, 1),  edge = min(edges/size * 20, 1)
\*   quality = 0.4 * density + 0.3 * connectivity + 0.3 * edge
\* over the common denominator 20 * size * n
calculate_quality(char_img) ==
    LET size == char_img.h * char_img.w
        ink == InkCount(char_img)
        edges == Cardinality(Canny(char_img))
        n == Max2(NumComponents(char_img), 1)
        density2 == IF 10 * ink >= size /\ 10 * ink <= 4 * size
                    THEN 2 * size
                    ELSE Max2(0, 2 * size - Abs(4 * ink - size))
    IN  [num |-> 4 * n * density2 + 6 * size + 6 * n * Min2(20 * edges, size),
         den |-> 20 * size * n]

(***************************************************************************)
(* Character Segmenter of improved_extraction.py                           *)
(***************************************************************************)
\* ImprovedExtractor.detect_omega_pattern
detect_omega_pattern(char_img, width, height) ==
    IF 10 * width < 13 * height THEN FALSE
    ELSE LET eroded == erode(bitwise_not(char_img), Ellipse3)
             \* num_labels - 1: the components of the non-zero pixels
             num == NumComponents(bitwise_not(eroded))
         IN  2 <= num /\ num <= 3

\* improved_gates gone wrong: every component is let through
improved_gates_open(st) == st.area > 0

\* the size and aspect gates of segment_characters_advanced
improved_gates(st) ==
    /\ ~(st.w < 5 \/ st.h < 10)
    /\ ~(st.w > 150 \/ st.h > 150)
    /\ ~(st.area < 50)
    /\ ~(st.w > 3 * st.h \/ 5 * st.w < st.h)

\* lines 124-143: one glyph candidate from component c of the line crop
improved_candidate(line_img, c) ==
    LET st == Stats(c)
        \* (labels == i) * 255: 255 on the component, 0 elsewhere
        char_mask == [h |-> line_img.h, w |-> line_img.w,
                      ink |-> Pixels(line_img.h, line_img.w) \ c]
        char_img == Crop(line_img, st.y, st.y + st.h, st.x, st.x + st.w)
        char_mask_crop == Crop(char_mask, st.y, st.y + st.h, st.x, st.x + st.w)
        char_clean == bitwise_and(char_img, char_mask_crop)
    IN  [x |-> st.x, y |-> st.y, w |-> st.w, h |-> st.h, area |-> st.area,
         image |-> char_clean,
         is_omega |-> detect_omega_pattern(char_clean, st.w, st.h)]

\* list.sort(key=lambda c: c['x']): a stable sort, by insertion
RECURSIVE InsertByX(_, _)
InsertByX(sorted, c) ==
    IF sorted = << >> THEN <<c>>
    ELSE IF Head(sorted).x <= c.x THEN <<Head(sorted)>> \o InsertByX(Tail(sorted), c)
    ELSE <<c>> \o sorted

\* SortByX gone wrong: the list is turned round instead of sorted
SortByXReversed(s) == [k \in 1 .. Len(s) |-> s[Len(s) + 1 - k]]

RECURSIVE SortByX(_)
SortByX(s) ==
    IF s = << >> THEN << >>
    ELSE InsertByX(SortByX(SubSeq(s, 1, Len(s) - 1)), s[Len(s)])

\* np.argmin over the columns lo+1 .. hi of v: the first minimum
ArgMin(v, lo, hi) ==
    LET m == SetMin({v[c] : c \in lo + 1 .. hi})
    IN  SetMin({c \in lo + 1 .. hi : v[c] = m}) - 1

\* split_one gone wrong: a candidate exactly 1.8 times as wide as high is
\* tried as well
split_one_at_trigger(char_data) ==
    LET w == char_data.w
        h == char_data.h
        char_img == char_data.image
        v_proj == ColProjection(char_img)
        mid_start == w \div 3
        mid_end == (2 * w) \div 3
        mid == {v_proj[c] : c \in mid_start + 1 .. mid_end}
        split_point == ArgMin(v_proj, mid_start, mid_end)
        left_char == Crop(char_img, 0, char_img.h, 0, split_point)
        right_char == Crop(char_img, 0, char_img.h, split_point, char_img.w)
    IN  IF /\ 5 * w >= 9 * h
           /\ ~char_data.is_omega
           /\ mid_start < mid_end
           /\ 10 * SetMin(mid) < 3 * SetMax(mid)
           /\ left_char.w > 5
           /\ right_char.w > 5
        THEN << [x |-> char_data.x, y |-> char_data.y, w |-> split_point,
                 h |-> h, image |-> left_char, is_omega |-> FALSE],
                [x |-> char_data.x + split_point, y |-> char_data.y,
                 w |-> w - split_point, h |-> h, image |-> right_char,
                 is_omega |-> FALSE] >>
        ELSE << [x |-> char_data.x, y |-> char_data.y, w |-> w, h |-> h,
                 image |-> char_img, is_omega |-> char_data.is_omega] >>

\* ImprovedExtractor.split_touching_characters, for one candidate: the
\* list of glyphs that replaces it
split_one(char_data) ==
    LET w == char_data.w
        h == char_data.h
        char_img == char_data.image
        v_proj == ColProjection(char_img)
        mid_start == w \div 3
        mid_end == (2 * w) \div 3
        mid == {v_proj[c] : c \in mid_start + 1 .. mid_end}
        split_point == ArgMin(v_proj, mid_start, mid_end)
        left_char == Crop(char_img, 0, char_img.h, 0, split_point)
        right_char == Crop(char_img, 0, char_img.h, split_point, char_img.w)
    IN  IF /\ 5 * w > 9 * h
           /\ ~char_data.is_omega
           /\ mid_start < mid_end
           /\ 10 * SetMin(mid) < 3 * SetMax(mid)
           /\ left_char.w > 5
           /\ right_char.w > 5
        THEN << [x |-> char_data.x, y |-> char_data.y, w |-> split_point,
                 h |-> h, image |-> left_char, is_omega |-> FALSE],
                [x |-> char_data.x + split_point, y |-> char_data.y,
                 w |-> w - split_point, h |-> h, image |-> right_char,
                 is_omega |-> FALSE] >>
        ELSE << [x |-> char_data.x, y |-> char_data.y, w |-> w, h |-> h,
                 image |-> char_img, is_omega |-> char_data.is_omega] >>

RECURSIVE split_touching_characters(_)
split_touching_characters(line_chars) ==
    IF line_chars = << >> THEN << >>
    ELSE split_one(Head(line_chars)) \o split_touching_characters(Tail(line_chars))

improved_pad == 8

\* lines 98-149: the glyph candidates of one line, split
improved_line_chars(line_img) ==
    LET comps == ComponentsOf(line_img.ink)
        kept == SelectSeq(comps, LAMBDA c : improved_gates(Stats(c)))
        cands == [i \in 1 .. Len(kept) |-> improved_candidate(line_img, kept[i])]
    IN  split_touching_characters(SortByX(cands))

\* improved_emit gone wrong: the box's bottom row is recorded as its top
improved_emit_bottom(processed, line_idx, y1, char_id) ==
    [k \in 1 .. Len(processed) |->
        LET char_data == processed[k]
            padded == copyMakeBorder(char_data.image, improved_pad)
        IN  [id |-> char_id + k - 1,
             line |-> line_idx,
             image |-> padded,
             x |-> char_data.x,
             y |-> y1 + char_data.y + char_data.h,
             width |-> char_data.w,
             height |-> char_data.h,
             quality_score |-> calculate_quality_score(padded),
             is_omega |-> char_data.is_omega]]

\* improved_emit gone wrong: the glyphs carry the index of the next line
improved_emit_next_line(processed, line_idx, y1, char_id) ==
    [k \in 1 .. Len(processed) |->
        LET char_data == processed[k]
            padded == copyMakeBorder(char_data.image, improved_pad)
        IN  [id |-> char_id + k - 1,
             line |-> line_idx + 1,
             image |-> padded,
             x |-> char_data.x,
             y |-> y1 + char_data.y,
             width |-> char_data.w,
             height |-> char_data.h,
             quality_score |-> calculate_quality_score(padded),
             is_omega |-> char_data.is_omega]]

\* lines 152-171: pad, score and number the glyphs of one line
improved_emit(processed, line_idx, y1, char_id) ==
    [k \in 1 .. Len(processed) |->
        LET char_data == processed[k]
            padded == copyMakeBorder(char_data.image, improved_pad)
        IN  [id |-> char_id + k - 1,
             line |-> line_idx,
             image |-> padded,
             x |-> char_data.x,
             y |-> y1 + char_data.y,
             width |-> char_data.w,
             height |-> char_data.h,
             quality_score |-> calculate_quality_score(padded),
             is_omega |-> char_data.is_omega]]

\* the loop over the lines; line_idx counts from 0
RECURSIVE improved_all_characters(_, _, _, _)
improved_all_characters(binary_img, lines, line_idx, char_id) ==
    IF line_idx = Len(lines) THEN << >>
    ELSE LET y1 == lines[line_idx + 1][1]
             y2 == lines[line_idx + 1][2]
             line_img == Crop(binary_img, y1, y2, 0, binary_img.w)
             out == improved_emit(improved_line_chars(line_img), line_idx, y1, char_id)
         IN  out \o improved_all_characters(binary_img, lines, line_idx + 1,
                                            char_id + Len(out))

\* ImprovedExtractor.segment_characters_advanced
segment_characters_advanced(binary_img, lines) ==
    SelectSeq(improved_all_characters(binary_img, lines, 0, 0),
              LAMBDA c : improved_keeps(c.quality_score))

(***************************************************************************)
(* Character Segmenter of fix_character_extraction.py                      *)
(***************************************************************************)
fix_gates(st) ==
    /\ ~(st.w < 8 \/ st.h < 8)
    /\ ~(st.w > 200 \/ st.h > 200)
    /\ ~(st.area < 40)
    /\ ~(st.w > 4 * st.h \/ 20 * st.w < 3 * st.h)

fix_pad == 5

\* np.mean(img) < 127 for an image of values 0 and 255
MeanBelow127(img) ==
    255 * (img.h * img.w - InkCount(img)) < 127 * img.h * img.w

\* lines 136-161: one glyph from component c of the line crop
fix_candidate(line_img, c) ==
    LET st == Stats(c)
        crop == Crop(line_img, st.y, st.y + st.h, st.x, st.x + st.w)
        char_img == IF MeanBelow127(crop) THEN bitwise_not(crop) ELSE crop
        char_padded == copyMakeBorder(char_img, fix_pad)
    IN  [x |-> st.x, y |-> st.y, w |-> st.w, h |-> st.h, area |-> st.area,
         image |-> char_padded,
         quality_score |-> calculate_quality(char_padded)]

\* CharacterExtractor.extract_line_characters
extract_line_characters(line_img) ==
    LET comps == ComponentsOf(line_img.ink)
        kept == SelectSeq(comps, LAMBDA c : fix_gates(Stats(c)))
    IN  SortByX([i \in 1 .. Len(kept) |-> fix_candidate(line_img, kept[i])])

\* lines 57-69 of extract_characters
RECURSIVE fix_all_characters(_, _, _, _)
fix_all_characters(binary, lines, line_idx, char_id) ==
    IF line_idx = Len(lines) THEN << >>
    ELSE LET y1 == lines[line_idx + 1][1]
             y2 == lines[line_idx + 1][2]
             line_img == Crop(binary, y1, y2, 0, binary.w)
             line_chars == extract_line_characters(line_img)
             out == [k \in 1 .. Len(line_chars) |->
                        [x |-> line_chars[k].x, y |-> line_chars[k].y,
                         w |-> line_chars[k].w, h |-> line_chars[k].h,
                         area |-> line_chars[k].area,
                         image |-> line_chars[k].image,
                         quality_score |-> line_chars[k].quality_score,
                         id |-> char_id + k - 1,
                         line |-> line_idx,
                         global_y |-> y1 + line_chars[k].y]]
         IN  out \o fix_all_characters(binary, lines, line_idx + 1, char_id + Len(out))

(***************************************************************************)
(* Character Segmenter of pipeline.py: runs of the vertical projection     *)
(***************************************************************************)
\* "threshold = 3  # Minimum pixels to consider as character"
pipeline_char_threshold == 3

pipeline_min_char_width == 10

pipeline_max_char_width == 100

pipeline_pad == 5

\* the column scan of one line; i counts the columns from 0
RECURSIVE pipeline_scan(_, _, _, _, _, _, _, _)
pipeline_scan(line_img, v_projection, i, in_char, char_start, line_idx, y1, y2) ==
    IF i = Len(v_projection) THEN << >>
    ELSE IF ~in_char /\ v_projection[i + 1] > pipeline_char_threshold
         THEN pipeline_scan(line_img, v_projection, i + 1, TRUE, i, line_idx, y1, y2)
    ELSE IF in_char /\ v_projection[i + 1] <= pipeline_char_threshold
         THEN (IF pipeline_min_char_width < i - char_start
                  /\ i - char_start < pipeline_max_char_width
               THEN << [line |-> line_idx,
                        image |-> copyMakeBorder(
                                     Crop(line_img, 0, line_img.h, char_start, i),
                                     pipeline_pad),
                        x |-> char_start, y |-> y1,
                        width |-> i - char_start, height |-> y2 - y1] >>
               ELSE << >>)
              \o pipeline_scan(line_img, v_projection, i + 1, FALSE, char_start,
                               line_idx, y1, y2)
    ELSE pipeline_scan(line_img, v_projection, i + 1, in_char, char_start,
                       line_idx, y1, y2)

RECURSIVE pipeline_all_characters(_, _, _)
pipeline_all_characters(binary_img, lines, line_idx) ==
    IF line_idx = Len(lines) THEN << >>
    ELSE LET y1 == lines[line_idx + 1][1]
             y2 == lines[line_idx + 1][2]
             line_img == Crop(binary_img, y1, y2, 0, binary_img.w)
         IN  pipeline_scan(line_img, ColProjection(line_img), 0, FALSE, 0,
                           line_idx, y1, y2)
             \o pipeline_all_characters(binary_img, lines, line_idx + 1)

\* ManuscriptProcessor.segment_characters; char_id numbers the glyphs in
\* the order they are found
segment_characters(binary_img, lines) ==
    LET found == pipeline_all_characters(binary_img, lines, 0)
    IN  [k \in 1 .. Len(found) |->
            [id |-> k - 1, line |-> found[k].line, image |-> found[k].image,
             x |-> found[k].x, y |-> found[k].y,
             width |-> found[k].width, height |-> found[k].height]]

(***************************************************************************)
(* Preprocessor.  A readable source page is given by what                  *)
(* cv2.adaptiveThreshold makes of it: bin1, bin2, bin3 at the three scales *)
(* of preprocess_advanced (after CLAHE), bin at the single scale (21, 10)  *)
(* of the two other scripts.  An unreadable page is [readable |-> FALSE]:  *)
(* cv2.imread returns None for it.                                         *)
(***************************************************************************)
\* np.sum(binary == 0) > np.sum(binary == 255)
MoreBlackThanWhite(img) == InkCount(img) > img.h * img.w - InkCount(img)

\* ImprovedExtractor.preprocess_advanced, lines 41-42
combine_scales(binary1, binary2, binary3) ==
    bitwise_and(binary1, bitwise_and(binary2, binary3))

\* ImprovedExtractor.preprocess_advanced, lines 44-46
improved_polarity(binary) ==
    IF MoreBlackThanWhite(binary) THEN bitwise_not(binary) ELSE binary

\* ImprovedExtractor.preprocess_advanced, lines 33-58, of a readable page
preprocess_advanced(page) ==
    LET binary == improved_polarity(combine_scales(page.bin1, page.bin2, page.bin3))
        blurred == medianBlur3(binary)
        closed == morph_close(blurred, Ellipse3)
    IN  morph_open(closed, Ellipse2)

\* CharacterExtractor.extract_characters, lines 41-46: the polarity is
\* read from the central half of the page
fix_polarity(binary) ==
    LET sample == Crop(binary, binary.h \div 4, (3 * binary.h) \div 4,
                               binary.w \div 4, (3 * binary.w) \div 4)
    IN  IF MeanBelow127(sample) THEN bitwise_not(binary) ELSE binary

\* CharacterExtractor.extract_characters, lines 34-51
fix_preprocess(page) ==
    morph_close(morph_open(fix_polarity(page.bin), Ones2), Ones2)

\* ManuscriptProcessor.preprocess_image, lines 49-53
pipeline_polarity(binary) ==
    IF MoreBlackThanWhite(binary) THEN bitwise_not(binary) ELSE binary

\* ManuscriptProcessor.preprocess_image, lines 44-59
preprocess_image(page) ==
    morph_open(morph_close(pipeline_polarity(page.bin), Ones2), Ones2)

(***************************************************************************)
(* Source pages.  The directory listing is drawn from a fixed catalogue of *)
(* pages; every readable page is PageH x PageW or twice as high.           *)
(***************************************************************************)
PageH == 40

PageW == 48

Rect(r0, c0, h, w) == (r0 .. r0 + h - 1) \X (c0 .. c0 + w - 1)

\* a tall stroke, too narrow to pass the width gates, that carries the line
Stroke(r0) == Rect(r0 + 6, 1, 28, 3)

\* all scales agree on the ink
CleanPage(h, ink) ==
    LET im == [h |-> h, w |-> PageW, ink |-> ink]
    IN  [readable |-> TRUE, bin1 |-> im, bin2 |-> im, bin3 |-> im, bin |-> im]

\* the finest scale (block size 11) sees an extra blot the others do not
NoisyPage(h, ink, blot) ==
    [readable |-> TRUE,
     bin1 |-> [h |-> h, w |-> PageW, ink |-> ink \cup blot],
     bin2 |-> [h |-> h, w |-> PageW, ink |-> ink],
     bin3 |-> [h |-> h, w |-> PageW, ink |-> ink],
     bin |-> [h |-> h, w |-> PageW, ink |-> ink]]

Unreadable == [readable |-> FALSE]

\* a solid letter
Block(r0, c0) == Rect(r0 + 8, c0, 24, 12)

\* an L with a separate dot inside its bounding box
EllDot(r0, c0) ==
    Rect(r0 + 10, c0, 20, 5) \cup Rect(r0 + 25, c0, 5, 16) \cup Rect(r0 + 12, c0 + 9, 6, 6)

\* two bowls joined by a hairline: an omega, width/height 1.5 once cleaned
Omega(r0, c0) ==
    Rect(r0 + 14, c0, 12, 8) \cup Rect(r0 + 14, c0 + 10, 12, 8) \cup Rect(r0 + 15, c0 + 8, 1, 2)

\* two letters touching through a short bridge, width/height 2
Touching(r0, c0) ==
    Rect(r0 + 14, c0, 12, 10) \cup Rect(r0 + 18, c0 + 10, 3, 4) \cup Rect(r0 + 14, c0 + 14, 12, 10)

Catalogue ==
    << CleanPage(PageH, Stroke(0) \cup Block(0, 8)),
       Unreadable,
       CleanPage(PageH, Stroke(0) \cup EllDot(0, 8)),
       CleanPage(PageH, {}),
       CleanPage(PageH, Stroke(0) \cup Omega(0, 8)),
       NoisyPage(PageH, Stroke(0) \cup Block(0, 8), Rect(12, 28, 12, 8)),
       CleanPage(PageH, Stroke(0) \cup Touching(0, 8)),
       CleanPage(2 * PageH, Stroke(0) \cup Block(0, 8) \cup Stroke(PageH) \cup EllDot(PageH, 20)) >>

(***************************************************************************)
(* Persister                                                               *)
(***************************************************************************)
\* int(x) of a fraction: truncation towards zero
TruncDiv(a, b) == IF a >= 0 THEN a \div b ELSE -((-a) \div b)

\* int(char['quality_score'] * 100)
QualityPercent(q) == TruncDiv(100 * q.num, q.den)

\* list.sort(key=lambda x: x['quality_score'], reverse=True): stable
RECURSIVE InsertByQuality(_, _)
InsertByQuality(sorted, c) ==
    IF sorted = << >> THEN <<c>>
    ELSE IF ~ScoreLT(Head(sorted).quality_score, c.quality_score)
         THEN <<Head(sorted)>> \o InsertByQuality(Tail(sorted), c)
    ELSE <<c>> \o sorted

RECURSIVE SortByQuality(_)
SortByQuality(s) ==
    IF s = << >> THEN << >>
    ELSE InsertByQuality(SortByQuality(SubSeq(s, 1, Len(s) - 1)), s[Len(s)])

\* f"char_{id:04d}_q{q:02d}.png"
ScoredName(c) == <<"char", c.id, "q", QualityPercent(c.quality_score)>>

\* f"char_{id:04d}.png"
PlainName(c) == <<"char", c.id>>

\* what one page's output directory glyphs/<stem>/ holds; preprocessed
\* stands for glyphs/<stem>_preprocessed.png, which main writes beside it
NoOutput == [preprocessed |-> FALSE, pngs |-> {}, has_metadata |-> FALSE,
             metadata |-> << >>, quality_stats |-> << >>]

\* the counts of quality_stats.json; avg_quality, a floating-point mean, is
\* left out
quality_stats(characters) ==
    LET count(P(_)) == Cardinality({k \in 1 .. Len(characters) : P(characters[k])})
        above(c, n) == ScoreGT(c.quality_score, [num |-> n, den |-> 10])
    IN  [total_extracted |-> Len(characters),
         saved |-> Len(characters),
         excellent |-> count(LAMBDA c : above(c, 7)),
         good |-> count(LAMBDA c : above(c, 5) /\ ~above(c, 7)),
         fair |-> count(LAMBDA c : above(c, 3) /\ ~above(c, 5)),
         poor |-> count(LAMBDA c : ~above(c, 3)),
         omega_detected |-> count(LAMBDA c : c.is_omega)]

\* save_improved_characters gone wrong: new records are appended to the
\* records of an earlier run
save_improved_characters_append(old, characters, source_name) ==
    LET sorted == SortByQuality(characters)
        entry(c) == [id |-> c.id, file |-> ScoredName(c), source_image |-> source_name,
                     line |-> c.line,
                     bbox |-> [x |-> c.x, y |-> c.y, width |-> c.width, height |-> c.height],
                     quality |-> c.quality_score, is_omega |-> c.is_omega]
    IN  [old EXCEPT
            !.pngs = @ \cup {ScoredName(sorted[k]) : k \in 1 .. Len(sorted)},
            !.has_metadata = TRUE,
            !.metadata = @ \o [k \in 1 .. Len(sorted) |-> entry(sorted[k])],
            !.quality_stats = <<quality_stats(characters)>>]

\* ImprovedExtractor.save_improved_characters: the output directory after
\* the call, from the directory before it
save_improved_characters(old, characters, source_name) ==
    LET sorted == SortByQuality(characters)
        entry(c) == [id |-> c.id, file |-> ScoredName(c), source_image |-> source_name,
                     line |-> c.line,
                     bbox |-> [x |-> c.x, y |-> c.y, width |-> c.width, height |-> c.height],
                     quality |-> c.quality_score, is_omega |-> c.is_omega]
    IN  [old EXCEPT
            !.pngs = @ \cup {ScoredName(sorted[k]) : k \in 1 .. Len(sorted)},
            !.has_metadata = TRUE,
            !.metadata = [k \in 1 .. Len(sorted) |-> entry(sorted[k])],
            !.quality_stats = <<quality_stats(characters)>>]

\* "if saved_count >= 2000: break"
fix_page_limit == 2000

\* CharacterExtractor.save_characters
fix_save_characters(old, characters, source_name) ==
    LET sorted == SortByQuality(characters)
        good == SelectSeq(sorted, LAMBDA c : fix_keeps(c.quality_score))
        kept == SubSeq(good, 1, Min2(Len(good), fix_page_limit))
        entry(c) == [id |-> c.id, filename |-> ScoredName(c), file |-> ScoredName(c),
                     source_image |-> source_name, quality |-> c.quality_score,
                     bbox |-> [x |-> c.x, y |-> c.global_y, width |-> c.w, height |-> c.h],
                     line |-> c.line]
    IN  [old EXCEPT
            !.pngs = @ \cup {ScoredName(kept[k]) : k \in 1 .. Len(kept)},
            !.has_metadata = TRUE,
            !.metadata = [k \in 1 .. Len(kept) |-> entry(kept[k])]]

\* ManuscriptProcessor.save_characters
pipeline_save_characters(old, characters, source_name) ==
    LET entry(c) == [id |-> c.id, file |-> PlainName(c), source_image |-> source_name,
                     line |-> c.line,
                     bbox |-> [x |-> c.x, y |-> c.y, width |-> c.width, height |-> c.height]]
    IN  [old EXCEPT
            !.pngs = @ \cup {PlainName(characters[k]) : k \in 1 .. Len(characters)},
            !.has_metadata = TRUE,
            !.metadata = [k \in 1 .. Len(characters) |-> entry(characters[k])]]

(***************************************************************************)
(* The scripts that read metadata.json.  A JSON value is an object, with   *)
(* its keys in the order they were written, or an array of items.          *)
(***************************************************************************)
\* json.dump({'source_image': ..., 'characters': metadata}, f): what all
\* three Persisters write
Document(out, source_name) ==
    [kind |-> "object",
     keys |-> <<"source_image", "characters">>,
     source_image |-> source_name,
     characters |-> out.metadata]

\* "for item in metadata[:50]"
sample_limit == 50

\* analyze_feasibility.analyze_character_quality: "for item in metadata"
\* walks the keys of an object, which are strings, and item['width'] of a
\* string raises TypeError; the item of an array without the key raises
\* KeyError
analyze_character_quality(exists, metadata) ==
    IF ~exists THEN [raised |-> FALSE, returned |-> FALSE]
    ELSE IF metadata.kind = "object"
         THEN [raised |-> metadata.keys # << >>, returned |-> metadata.keys = << >>]
    ELSE LET sample == 1 .. Min2(sample_limit, Len(metadata.items))
             ok == /\ \A k \in 1 .. Len(metadata.items) :
                         {"width", "height"} \subseteq DOMAIN metadata.items[k]
                   /\ \A k \in sample : "file" \in DOMAIN metadata.items[k]
         IN  [raised |-> ~ok, returned |-> ok]

\* analyze_feasibility.estimate_unique_glyphs, for one directory
estimate_unique_glyphs(exists, metadata) ==
    IF ~exists THEN [raised |-> FALSE]
    ELSE IF metadata.kind = "object" THEN [raised |-> metadata.keys # << >>]
    ELSE [raised |-> \E k \in 1 .. Len(metadata.items) :
                        ~({"width", "height"} \subseteq DOMAIN metadata.items[k])]

\* visualize_results.create_character_grid: open() raises without the file,
\* and metadata[:50] raises on an object
create_character_grid(exists, metadata) ==
    IF ~exists \/ metadata.kind = "object" THEN [raised |-> TRUE]
    ELSE [raised |-> \E k \in 1 .. Min2(sample_limit, Len(metadata.items)) :
                        "file" \notin DOMAIN metadata.items[k]]

\* prepare_review_letters_with_bbox.py, lines 27-76, for one directory: the
\* letters it collects from the PNGs and the records of the same name;
\* metadata.get raises on an array, and the quality of a PNG without a
\* record is read off its name
prepare_review_letters(pngs, exists, metadata) ==
    IF ~exists
    THEN [raised |-> FALSE,
          letters |-> {[file |-> f, quality |-> f[4], bbox |-> << >>] : f \in pngs}]
    ELSE IF metadata.kind # "object" THEN [raised |-> TRUE, letters |-> {}]
    ELSE LET characters == metadata.characters
             named(f) == {k \in 1 .. Len(characters) : characters[k].file = f}
             last(f) == characters[SetMax(named(f))]
         IN  [raised |-> \E k \in 1 .. Len(characters) : "file" \notin DOMAIN characters[k],
              letters |->
                 {IF named(f) = {}
                  THEN [file |-> f, quality |-> f[4], bbox |-> << >>]
                  ELSE [file |-> f,
                        quality |-> IF "quality" \in DOMAIN last(f)
                                    THEN QualityPercent(last(f).quality) ELSE f[4],
                        bbox |-> IF "bbox" \in DOMAIN last(f)
                                 THEN <<last(f).bbox>> ELSE << >>] : f \in pngs}]

\* Path.glob hands over the members of a directory in no promised order
RECURSIVE GlobOrders(_)
GlobOrders(S) ==
    IF S = {} THEN {<< >>}
    ELSE UNION {{<<x>> \o t : t \in GlobOrders(S \ {x})} : x \in S}

\* all_chars after the loop of lines 25-102: the letters of one directory
\* after those of another, each with the directory it was found in
collect_all_chars(dir_order, file_order) ==
    LET RECURSIVE Collect(_)
        Collect(k) ==
            IF k = 0 THEN << >>
            ELSE Collect(k - 1) \o
                 [j \in 1 .. Len(file_order[dir_order[k]]) |->
                     [source |-> dir_order[k],
                      source_path |-> <<dir_order[k], file_order[dir_order[k]][j].file>>,
                      quality |-> file_order[dir_order[k]][j].quality,
                      bbox |-> file_order[dir_order[k]][j].bbox]]
    IN  Collect(Len(dir_order))

\* SortLetters gone wrong: the list stays as it was collected
SortLettersSkipped(all_chars) == all_chars

\* all_chars.sort(key=lambda x: x['quality'], reverse=True): stable
RECURSIVE InsertLetter(_, _)
InsertLetter(sorted, c) ==
    IF sorted = << >> THEN <<c>>
    ELSE IF Head(sorted).quality >= c.quality
         THEN <<Head(sorted)>> \o InsertLetter(Tail(sorted), c)
    ELSE <<c>> \o sorted

RECURSIVE SortLetters(_)
SortLetters(all_chars) ==
    IF all_chars = << >> THEN << >>
    ELSE InsertLetter(SortLetters(SubSeq(all_chars, 1, Len(all_chars) - 1)),
                      all_chars[Len(all_chars)])

\* str(i): the decimal digits of i
RECURSIVE Str(_)
Str(i) == IF i < 10 THEN <<i>> ELSE Str(i \div 10) \o <<i % 10>>

\* s.zfill(width): zeros in front up to the width, nothing cut off
RECURSIVE ZFill(_, _)
ZFill(s, width) == IF Len(s) >= width THEN s ELSE ZFill(<<0>> \o s, width)

\* f"letter_{str(i).zfill(5)}.png"
letter_filename(i) == <<"letter">> \o ZFill(Str(i), 5)

\* prepare_review_letters_with_bbox.py, lines 106-146: the sorted letters are
\* copied to review/letter_<i>.png and listed in the manifest, with the box
\* where the record had one
build_manifest(all_chars) ==
    LET sorted == SortLetters(all_chars)
        entry(i) ==
            LET char_info == sorted[i + 1]
                manifest_entry == [id |-> i,
                                   filename |-> letter_filename(i),
                                   source |-> char_info.source,
                                   quality |-> char_info.quality]
            IN  IF char_info.bbox # << >>
                THEN manifest_entry @@ [bbox |-> char_info.bbox[1]]
                ELSE manifest_entry
    IN  [letters |-> [k \in 1 .. Len(sorted) |-> entry(k - 1)],
         copied |-> [k \in 1 .. Len(sorted) |-> sorted[k].source_path]]

(***************************************************************************)
(* The tail of pipeline.py: potrace, fontforge and the results summary     *)
(***************************************************************************)
\* "for char_file in char_files[:20]"
vector_limit == 20

\* a vector directory before anything is written to it
NoVectors == [svgs |-> {}, pbms |-> {}]

\* vectorize_characters gone wrong: what potrace raises is not caught
vectorize_characters_uncaught(old, char_files, first, tool, failed) ==
    IF (tool = "missing" /\ char_files # {}) \/ failed # {}
    THEN [raised |-> TRUE, vector_dir |-> FALSE, files |-> old, warnings |-> {}]
    ELSE [raised |-> FALSE, vector_dir |-> TRUE,
          files |-> [old EXCEPT !.svgs = @ \cup char_files],
          warnings |-> {}]

\* ManuscriptProcessor.vectorize_characters.  char_files are the PNGs the
\* loop takes and first is the one it takes first; failed are those on
\* which potrace exits with an error (CalledProcessError), and a missing
\* tool makes subprocess.run raise FileNotFoundError on the first file.
\* The .pbm of a file stays behind when potrace did not succeed on it.
vectorize_characters(old, char_files, first, tool, failed) ==
    IF tool = "missing" /\ char_files # {}
    THEN [raised |-> FALSE, vector_dir |-> FALSE,
          files |-> [old EXCEPT !.pbms = @ \cup {first}],
          warnings |-> {<<"potrace not found">>}]
    ELSE [raised |-> FALSE, vector_dir |-> TRUE,
          files |-> [old EXCEPT !.svgs = @ \cup (char_files \ failed),
                                !.pbms = (@ \ char_files) \cup failed],
          warnings |-> {<<"potrace failed", f>> : f \in failed}]

\* the record process_manuscript returns (lines 319-325); None is << >>
result_record(source_name, lines, characters, vector_dir) ==
    [source |-> source_name,
     lines |-> Len(lines),
     characters |-> Len(characters),
     char_dir |-> source_name,
     vector_dir |-> IF vector_dir THEN <<source_name>> ELSE << >>]

(***************************************************************************)
(* The three entry points as one state machine: a run of main() over the   *)
(* sorted directory listing, page by page, stage by stage.                 *)
(***************************************************************************)
VARIABLES
    variant,         \* which script runs: "improved", "fix" or "pipeline"
    numpy_empty,     \* what np.percentile does with an empty array here
    dir,             \* sorted(DATA_DIR.glob("*.jpg")): indices into Catalogue
    run,             \* how many times main() has been started
    idx,             \* position of the current page in dir
    pc,              \* the stage about to run, or "done" / "crashed" / "read"
    pre,             \* the preprocessor's intermediate images of the page
    binary,          \* the BinaryMask of the current page
    lines,           \* its TextLines
    all_characters,  \* its glyphs before the quality filter
    characters,      \* its glyphs as handed to the Persister
    disk,            \* the output directory of every page
    snapshot,        \* disk as the previous run left it
    log,             \* the stages this run has completed: <<page, stage>>
    probe,           \* the argument of a function applied on its own
    probe_out,       \* and what the function, or a reader of the output, returned
    potrace,         \* "installed" or "missing": can subprocess find potrace
    fontforge,       \* can "import fontforge" succeed
    vectors,         \* the vector directory of every page: its svg and pbm files
    warnings,        \* the warnings this run has printed
    results,         \* main's list of result records
    summary,         \* pipeline_results.json: << >>, or the list once written
    fonts            \* the pages for which a font file was generated

vars == <<variant, numpy_empty, dir, run, idx, pc, pre, binary, lines,
          all_characters, characters, disk, snapshot, log, probe, probe_out,
          potrace, fontforge, vectors, warnings, results, summary, fonts>>

\* what only the tail of pipeline.py touches
toolchain == <<potrace, fontforge, vectors, warnings, results, summary, fonts>>

NoProbe == [kind |-> "none"]

MaxPages == 2

MaxRuns == 2

Variants == {"improved", "fix", "pipeline"}

NoImage == [h |-> 0, w |-> 0, ink |-> {}]

NoPre == [combined |-> NoImage, polar |-> NoImage]

FirstStage(v) == IF v = "fix" THEN "extract" ELSE "preprocess"

\* what follows the for loop of main(): pipeline.py writes its summary
AfterLoop(v) == IF v = "pipeline" THEN "summary" ELSE "done"

\* the listing: a run of consecutive catalogue pages, wrapping around
Listing(start, len) ==
    [i \in 1 .. len |-> ((start + i - 2) % Len(Catalogue)) + 1]

\* the loop gone wrong: every turn works on the first image
PageFirst == Catalogue[dir[1]]

Page == Catalogue[dir[idx]]

PageHeight(i) == Catalogue[dir[i]].bin.h

PageWidth(i) == Catalogue[dir[i]].bin.w

Init ==
    /\ variant \in Variants
    /\ numpy_empty \in PercentileOfEmpty
    /\ \E start \in 1 .. Len(Catalogue), len \in 1 .. MaxPages : dir = Listing(start, len)
    /\ run = 1
    /\ idx = 1
    /\ pc = FirstStage(variant)
    /\ pre = NoPre
    /\ binary = NoImage
    /\ lines = << >>
    /\ all_characters = << >>
    /\ characters = << >>
    /\ disk = [i \in 1 .. Len(dir) |-> NoOutput]
    /\ snapshot = disk
    /\ log = << >>
    /\ probe = NoProbe
    /\ probe_out = NoProbe
    /\ potrace \in IF variant = "pipeline" THEN {"installed", "missing"} ELSE {"missing"}
    /\ fontforge \in IF variant = "pipeline" THEN BOOLEAN ELSE {FALSE}
    /\ vectors = [i \in 1 .. Len(dir) |-> NoVectors]
    /\ warnings = {}
    /\ results = << >>
    /\ summary = << >>
    /\ fonts = {}

\* the for loop gone wrong: the next image is taken up at the Line Detector
NextPageAtDetect ==
    /\ idx' = IF idx = Len(dir) THEN idx ELSE idx + 1
    /\ pc' = IF idx = Len(dir) THEN AfterLoop(variant) ELSE "detect"

\* the for loop of main() moves to the next image, or main() returns
NextPage ==
    /\ idx' = IF idx = Len(dir) THEN idx ELSE idx + 1
    /\ pc' = IF idx = Len(dir) THEN AfterLoop(variant) ELSE FirstStage(variant)

\* an exception nobody catches ends main()
Crash ==
    /\ pc' = "crashed"
    /\ UNCHANGED <<idx, pre, binary, lines, all_characters, characters, disk, log>>

\* improved_extraction.main, lines 353-357: preprocess_advanced and the
\* imwrite of the preprocessed image.  cv2.imread returns None for an
\* unreadable file and cv2.cvtColor(None, ...) raises.
ImprovedPreprocess ==
    /\ UNCHANGED <<probe, probe_out>>
    /\ UNCHANGED toolchain
    /\ variant = "improved"
    /\ pc = "preprocess"
    /\ IF ~Page.readable
       THEN Crash
       ELSE /\ pre' = [combined |-> combine_scales(Page.bin1, Page.bin2, Page.bin3),
                       polar |-> improved_polarity(
                                    combine_scales(Page.bin1, Page.bin2, Page.bin3))]
            /\ binary' = preprocess_advanced(Page)
            /\ disk' = [disk EXCEPT ![idx].preprocessed = TRUE]
            /\ pc' = "detect"
            /\ log' = Append(log, <<idx, "preprocess">>)
            /\ UNCHANGED <<idx, lines, all_characters, characters>>
    /\ UNCHANGED <<variant, numpy_empty, dir, run, snapshot>>

\* improved_extraction.main, line 360
ImprovedDetect ==
    /\ UNCHANGED <<probe, probe_out>>
    /\ UNCHANGED toolchain
    /\ variant = "improved"
    /\ pc = "detect"
    /\ LET r == detect_text_regions(binary, numpy_empty)
       IN  IF r.raised
           THEN Crash
           ELSE /\ lines' = r.lines
                /\ pc' = "segment"
                /\ log' = Append(log, <<idx, "detect">>)
                /\ UNCHANGED <<idx, pre, binary, all_characters, characters, disk>>
    /\ UNCHANGED <<variant, numpy_empty, dir, run, snapshot>>

\* improved_extraction.main, line 363
ImprovedSegment ==
    /\ UNCHANGED <<probe, probe_out>>
    /\ UNCHANGED toolchain
    /\ variant = "improved"
    /\ pc = "segment"
    /\ all_characters' = improved_all_characters(binary, lines, 0, 0)
    /\ characters' = segment_characters_advanced(binary, lines)
    /\ pc' = "save"
    /\ log' = Append(log, <<idx, "segment">>)
    /\ UNCHANGED <<variant, numpy_empty, dir, run, idx, pre, binary, lines, disk, snapshot>>

\* improved_extraction.main, line 366, and the step of the for loop
ImprovedSave ==
    /\ UNCHANGED <<probe, probe_out>>
    /\ UNCHANGED toolchain
    /\ variant = "improved"
    /\ pc = "save"
    /\ disk' = [disk EXCEPT ![idx] = save_improved_characters(@, characters, idx)]
    /\ log' = Append(log, <<idx, "save">>)
    /\ NextPage
    /\ UNCHANGED <<variant, numpy_empty, dir, run, pre, binary, lines,
                   all_characters, characters, snapshot>>

\* CharacterExtractor.extract_characters, called from main (line 271)
FixExtract ==
    /\ UNCHANGED <<probe, probe_out>>
    /\ UNCHANGED toolchain
    /\ variant = "fix"
    /\ pc = "extract"
    /\ IF ~Page.readable
       THEN /\ characters' = << >>
            /\ all_characters' = << >>
            /\ pre' = NoPre
            /\ binary' = NoImage
            /\ lines' = << >>
       ELSE LET b == fix_preprocess(Page)
                l == find_text_lines(b)
            IN  /\ pre' = [combined |-> Page.bin, polar |-> fix_polarity(Page.bin)]
                /\ binary' = b
                /\ lines' = l
                /\ all_characters' = fix_all_characters(b, l, 0, 0)
                /\ characters' = fix_all_characters(b, l, 0, 0)
    /\ pc' = "save"
    /\ log' = Append(log, <<idx, "extract">>)
    /\ UNCHANGED <<variant, numpy_empty, dir, run, idx, disk, snapshot>>

\* fix_character_extraction.main, lines 273-276: "if characters:" and the
\* step of the for loop
FixSave ==
    /\ UNCHANGED <<probe, probe_out>>
    /\ UNCHANGED toolchain
    /\ variant = "fix"
    /\ pc = "save"
    /\ IF characters # << >>
       THEN /\ disk' = [disk EXCEPT ![idx] = fix_save_characters(@, characters, idx)]
            /\ log' = Append(log, <<idx, "save">>)
       ELSE UNCHANGED <<disk, log>>
    /\ NextPage
    /\ UNCHANGED <<variant, numpy_empty, dir, run, pre, binary, lines,
                   all_characters, characters, snapshot>>

\* ManuscriptProcessor.process_manuscript, lines 296-301
PipelinePreprocess ==
    /\ UNCHANGED <<probe, probe_out>>
    /\ UNCHANGED toolchain
    /\ variant = "pipeline"
    /\ pc = "preprocess"
    /\ IF ~Page.readable
       THEN Crash
       ELSE /\ pre' = [combined |-> Page.bin, polar |-> pipeline_polarity(Page.bin)]
            /\ binary' = preprocess_image(Page)
            /\ disk' = [disk EXCEPT ![idx].preprocessed = TRUE]
            /\ pc' = "detect"
            /\ log' = Append(log, <<idx, "preprocess">>)
            /\ UNCHANGED <<idx, lines, all_characters, characters>>
    /\ UNCHANGED <<variant, numpy_empty, dir, run, snapshot>>

\* process_manuscript, line 304
PipelineDetect ==
    /\ UNCHANGED <<probe, probe_out>>
    /\ UNCHANGED toolchain
    /\ variant = "pipeline"
    /\ pc = "detect"
    /\ lines' = detect_lines(binary)
    /\ pc' = "segment"
    /\ log' = Append(log, <<idx, "detect">>)
    /\ UNCHANGED <<variant, numpy_empty, dir, run, idx, pre, binary,
                   all_characters, characters, disk, snapshot>>

\* process_manuscript, line 307
PipelineSegment ==
    /\ UNCHANGED <<probe, probe_out>>
    /\ UNCHANGED toolchain
    /\ variant = "pipeline"
    /\ pc = "segment"
    /\ all_characters' = segment_characters(binary, lines)
    /\ characters' = segment_characters(binary, lines)
    /\ pc' = "save"
    /\ log' = Append(log, <<idx, "segment">>)
    /\ UNCHANGED <<variant, numpy_empty, dir, run, idx, pre, binary, lines, disk, snapshot>>

\* process_manuscript, line 310
PipelineSave ==
    /\ UNCHANGED <<probe, probe_out>>
    /\ UNCHANGED toolchain
    /\ variant = "pipeline"
    /\ pc = "save"
    /\ disk' = [disk EXCEPT ![idx] = pipeline_save_characters(@, characters, idx)]
    /\ log' = Append(log, <<idx, "save">>)
    /\ pc' = "vectorize"
    /\ UNCHANGED <<variant, numpy_empty, dir, run, idx, pre, binary, lines,
                   all_characters, characters, snapshot>>

\* process_manuscript, lines 313-325: vectorize_characters, then
\* create_sample_font "if vector_dir", then the result record; main appends
\* the record (line 341) and the for loop steps.  glob lists the PNGs in
\* no particular order, and create_sample_font returns None when fontforge
\* cannot be imported.
PipelineVectorize ==
    /\ UNCHANGED <<probe, probe_out>>
    /\ variant = "pipeline"
    /\ pc = "vectorize"
    /\ \E char_files \in {c \in SUBSET disk[idx].pngs :
                             Cardinality(c) = Min2(vector_limit,
                                                   Cardinality(disk[idx].pngs))} :
          \E first \in IF char_files = {} THEN {<< >>} ELSE char_files :
             \E failed \in IF potrace = "installed" THEN SUBSET char_files ELSE {{}} :
                LET v == vectorize_characters(vectors[idx], char_files, first,
                                              potrace, failed)
                IN  IF v.raised
                    THEN /\ Crash
                         /\ UNCHANGED <<vectors, warnings, results, fonts>>
                    ELSE /\ vectors' = [vectors EXCEPT ![idx] = v.files]
                         /\ warnings' = warnings \cup {<<idx>> \o w : w \in v.warnings}
                         /\ fonts' = IF v.vector_dir /\ fontforge
                                     THEN fonts \cup {idx} ELSE fonts
                         /\ results' = Append(results,
                                          result_record(idx, lines, characters,
                                                        v.vector_dir))
                         /\ log' = Append(log, <<idx, "vectorize">>)
                         /\ NextPage
                         /\ UNCHANGED <<pre, binary, lines, all_characters,
                                        characters, disk>>
    /\ UNCHANGED <<variant, numpy_empty, dir, run, snapshot, potrace, fontforge,
                   summary>>

\* main, lines 343-346: pipeline_results.json
PipelineSummary ==
    /\ UNCHANGED <<probe, probe_out>>
    /\ variant = "pipeline"
    /\ pc = "summary"
    /\ summary' = <<results>>
    /\ pc' = "done"
    /\ UNCHANGED <<variant, numpy_empty, dir, run, idx, pre, binary, lines,
                   all_characters, characters, disk, snapshot, log,
                   potrace, fontforge, vectors, warnings, results, fonts>>

\* analyze_feasibility.main, lines 86-116: it reads pipeline_results.json
\* and, for every record, the metadata.json of the record's char_dir
AnalyzeFeasibility ==
    /\ variant = "pipeline"
    /\ pc = "done"
    /\ LET quality(i) == analyze_character_quality(disk[i].has_metadata,
                                                   Document(disk[i], i))
           unique(i) == estimate_unique_glyphs(disk[i].has_metadata,
                                               Document(disk[i], i))
       IN  probe_out' = [kind |-> "read", reader |-> "analyze_feasibility",
                         raised |-> \E i \in 1 .. Len(summary[1]) :
                                       quality(i).raised \/ unique(i).raised]
    /\ pc' = "read"
    /\ UNCHANGED toolchain
    /\ UNCHANGED <<variant, numpy_empty, dir, run, idx, pre, binary, lines,
                   all_characters, characters, disk, snapshot, log, probe>>

\* visualize_results.main, lines 80-84, over the directories of glyphs/
VisualizeResults ==
    /\ variant = "pipeline"
    /\ pc = "done"
    /\ probe_out' = [kind |-> "read", reader |-> "visualize_results",
                     raised |-> \E i \in 1 .. Len(disk) :
                                   create_character_grid(disk[i].has_metadata,
                                                         Document(disk[i], i)).raised]
    /\ pc' = "read"
    /\ UNCHANGED toolchain
    /\ UNCHANGED <<variant, numpy_empty, dir, run, idx, pre, binary, lines,
                   all_characters, characters, disk, snapshot, log, probe>>

\* prepare_review_letters_with_bbox.py over the directories of
\* glyphs_improved/, which improved_extraction.py and
\* fix_character_extraction.py write
PrepareReview ==
    /\ variant \in {"improved", "fix"}
    /\ pc = "done"
    /\ LET read(i) == prepare_review_letters(disk[i].pngs, disk[i].has_metadata,
                                             Document(disk[i], i))
           pages == 1 .. Len(disk)
           raised == \E i \in pages : read(i).raised
           file_orders == {f \in [pages -> UNION {GlobOrders(read(i).letters) : i \in pages}] :
                              \A i \in pages : f[i] \in GlobOrders(read(i).letters)}
       IN  \E dir_order \in GlobOrders(pages), file_order \in file_orders :
               probe_out' = [kind |-> "read", reader |-> "prepare_review_letters",
                             raised |-> raised,
                             letters |-> [i \in pages |-> read(i).letters],
                             manifest |-> IF raised THEN [letters |-> << >>, copied |-> << >>]
                                          ELSE build_manifest(
                                                   collect_all_chars(dir_order, file_order))]
    /\ pc' = "read"
    /\ UNCHANGED toolchain
    /\ UNCHANGED <<variant, numpy_empty, dir, run, idx, pre, binary, lines,
                   all_characters, characters, disk, snapshot, log, probe>>

\* the script is started again on the same, unchanged directory
Rerun ==
    /\ UNCHANGED <<probe, probe_out>>
    /\ UNCHANGED <<potrace, fontforge, vectors, summary, fonts>>
    /\ warnings' = {}
    /\ results' = << >>
    /\ pc \in {"done", "crashed"}
    /\ run < MaxRuns
    /\ run' = run + 1
    /\ snapshot' = disk
    /\ idx' = 1
    /\ pc' = FirstStage(variant)
    /\ pre' = NoPre
    /\ binary' = NoImage
    /\ lines' = << >>
    /\ all_characters' = << >>
    /\ characters' = << >>
    /\ log' = << >>
    /\ UNCHANGED <<variant, numpy_empty, dir, disk>>

Next ==
    \/ ImprovedPreprocess
    \/ ImprovedDetect
    \/ ImprovedSegment
    \/ ImprovedSave
    \/ FixExtract
    \/ FixSave
    \/ PipelinePreprocess
    \/ PipelineDetect
    \/ PipelineSegment
    \/ PipelineSave
    \/ PipelineVectorize
    \/ PipelineSummary
    \/ AnalyzeFeasibility
    \/ VisualizeResults
    \/ PrepareReview
    \/ Rerun

Spec == Init /\ [][Next]_vars

(***************************************************************************)
(* The scorer, the omega detector and the splitter applied on their own,   *)
(* to arguments drawn from bounded sets.                                   *)
(***************************************************************************)
\* shapes of padded glyph bitmaps: the smallest each variant can emit, a
\* middling one, and ones at the edges of the scorer's size window
ProbeHeights == {18, 26, 40, 120}

ProbeWidths == {18, 21, 40, 100}

\* what a bitmap of that shape may carry: nothing, a dot, a bar, two bars,
\* or a solid box that fills it up to the border of 8 pixels
ProbeInks(h, w) ==
    { {},
      Rect(h \div 2, w \div 2, 3, 3),
      Rect(8, 8, h - 16, 2),
      Rect(8, 8, h - 16, 2) \cup Rect(8, w - 10, h - 16, 2),
      Rect(8, 8, h - 16, w - 16) }

ProbeBitmaps ==
    {[kind |-> "bitmap", image |-> [h |-> h, w |-> w, ink |-> ink]] :
        <<h, w, ink>> \in {t \in ProbeHeights \X ProbeWidths \X
                                 UNION {ProbeInks(h, w) : <<h, w>> \in ProbeHeights \X ProbeWidths} :
                             t[3] \in ProbeInks(t[1], t[2])}}

\* glyph candidates as the splitter expects them: two blobs CandH high and
\* bw wide, gap columns apart, joined by a bridge of so many rows
CandH == 10

MaxBridge == 4

CandBlobWidths == {6, 8, 10}

CandGaps == {2, 4, 8, 12}

TwoBlobs(bw, gap, bridge) ==
    [h |-> CandH, w |-> 2 * bw + gap,
     ink |-> Rect(0, 0, CandH, bw) \cup Rect(0, bw + gap, CandH, bw)
             \cup Rect(CandH - bridge, bw, bridge, gap)]

ProbeCandidates ==
    {[kind |-> "candidate",
      data |-> [x |-> 9, y |-> 3, w |-> 2 * bw + gap, h |-> CandH,
                area |-> Cardinality(TwoBlobs(bw, gap, bridge).ink),
                image |-> TwoBlobs(bw, gap, bridge), is_omega |-> o]] :
        <<bw, gap, bridge, o>> \in CandBlobWidths \X CandGaps \X (0 .. MaxBridge) \X BOOLEAN}

\* masks for the Line Detector: full-width ink bands, every one BandGap
\* white rows away from its neighbours and from the top and bottom edges
BandGap == 100

BandW == 48

MaxBands == 2

BandHeights == {40, 200}

BandStart(i, height) == BandGap + (i - 1) * (height + BandGap)

BandMask(k, height) ==
    [h |-> BandGap + k * (height + BandGap), w |-> BandW,
     ink |-> UNION {Rect(BandStart(i, height), 0, height, BandW) : i \in 1 .. k}]

\* masks with one band: at the top of the page, BandGap rows away from
\* both ends, or at the bottom
EdgeHeights == {5, 40}

EdgePlaces == {"top", "middle", "bottom"}

EdgeMask(height, place) ==
    [h |-> height + (IF place = "middle" THEN 2 * BandGap ELSE BandGap), w |-> BandW,
     ink |-> Rect(IF place = "top" THEN 0 ELSE BandGap, 0, height, BandW)]

ProbeEdgeMasks ==
    {[kind |-> "edge", band_height |-> height, place |-> place,
      image |-> EdgeMask(height, place)] : <<height, place>> \in EdgeHeights \X EdgePlaces}

ProbeMasks ==
    {[kind |-> "mask", bands |-> k, band_height |-> height, image |-> BandMask(k, height)] :
        <<k, height>> \in (1 .. MaxBands) \X BandHeights}

\* scored glyphs for the Persister: pages of up to MaxGlyphs glyphs whose
\* scores lie below, on and above the cutoff
MaxGlyphs == 2

ProbeScores == {[num |-> n, den |-> 10] : n \in 2 .. 4}

ScoredGlyph(v, id, q) ==
    IF v = "fix"
    THEN [x |-> 10 * id + 3, y |-> 2, w |-> 8, h |-> 12, area |-> 60,
          image |-> copyMakeBorder([h |-> 12, w |-> 8, ink |-> Rect(0, 0, 12, 5)], fix_pad),
          quality_score |-> q, id |-> id, line |-> 0, global_y |-> 7]
    ELSE [id |-> id, line |-> 0,
          image |-> copyMakeBorder([h |-> 12, w |-> 8, ink |-> Rect(0, 0, 12, 5)], improved_pad),
          x |-> 10 * id + 3, y |-> 7, width |-> 8, height |-> 12,
          quality_score |-> q, is_omega |-> FALSE]

ProbeGlyphs(v) ==
    {[kind |-> "glyphs", glyphs |-> [k \in 1 .. n |-> ScoredGlyph(v, k - 1, qs[k])]] :
        <<n, qs>> \in {t \in (1 .. MaxGlyphs) \X UNION {[1 .. m -> ProbeScores] : m \in 1 .. MaxGlyphs} :
                          DOMAIN t[2] = 1 .. t[1]}}

\* thresholded pages for the polarity step: white, black, a black frame
\* round a white centre, and a black centre on white
ScanSide == 8

ProbeScans ==
    LET centre == Rect(ScanSide \div 4, ScanSide \div 4, ScanSide \div 2, ScanSide \div 2)
        all == Pixels(ScanSide, ScanSide)
    IN  {[kind |-> "scan", image |-> [h |-> ScanSide, w |-> ScanSide, ink |-> ink]] :
            ink \in {{}, all, all \ centre, centre}}

\* the distances, in rows, between the two letters of a two-line page
LineGaps == {8, 16}

\* the widths of the rule that runs down the whole page
RuleWidths == {3, 8}

\* a page of two lines, one letter each, beside a rule as high as the page
TwoLinePage(rule, gap) ==
    [h |-> 2 * PageH, w |-> PageW,
     ink |-> Rect(0, 1, 2 * PageH, rule) \cup Rect(8, 12, 24, 12)
                \cup Rect(32 + gap, 12, 24, 12)]

ProbePages ==
    {[kind |-> "page", rule |-> rule, gap |-> gap, image |-> TwoLinePage(rule, gap)] :
        rule \in RuleWidths, gap \in LineGaps}

InitUnit ==
    /\ variant \in Variants
    /\ probe \in CASE variant = "improved" -> ProbeBitmaps \cup ProbeCandidates \cup ProbeMasks
                                              \cup ProbeGlyphs("improved") \cup ProbeEdgeMasks
                                              \cup ProbeScans \cup ProbePages
                  [] variant = "fix" -> ProbeBitmaps \cup ProbeMasks \cup ProbeGlyphs("fix")
                                         \cup ProbeEdgeMasks \cup ProbeScans \cup ProbePages
                  [] OTHER -> ProbeMasks \cup ProbeEdgeMasks \cup ProbeScans
    /\ probe_out = NoProbe
    /\ numpy_empty = "raise"
    /\ dir = << >>
    /\ run = 1
    /\ idx = 1
    /\ pc = "unit"
    /\ pre = NoPre
    /\ binary = NoImage
    /\ lines = << >>
    /\ all_characters = << >>
    /\ characters = << >>
    /\ disk = << >>
    /\ snapshot = << >>
    /\ log = << >>
    /\ potrace = "missing"
    /\ fontforge = FALSE
    /\ vectors = << >>
    /\ warnings = {}
    /\ results = << >>
    /\ summary = << >>
    /\ fonts = {}

UnitFrame ==
    /\ pc' = "applied"
    /\ UNCHANGED toolchain
    /\ UNCHANGED <<variant, numpy_empty, dir, run, idx, pre, binary, lines,
                   all_characters, characters, disk, snapshot, log, probe>>

\* calculate_quality_score and the filter of segment_characters_advanced
UnitQualityScore ==
    /\ pc = "unit"
    /\ variant = "improved"
    /\ probe.kind = "bitmap"
    /\ probe_out' = [kind |-> "score",
                     quality_score |-> calculate_quality_score(probe.image),
                     kept |-> improved_keeps(calculate_quality_score(probe.image))]
    /\ UnitFrame

\* calculate_quality and the skip of save_characters
UnitQuality ==
    /\ pc = "unit"
    /\ variant = "fix"
    /\ probe.kind = "bitmap"
    /\ probe_out' = [kind |-> "score",
                     quality_score |-> calculate_quality(probe.image),
                     kept |-> fix_keeps(calculate_quality(probe.image))]
    /\ UnitFrame

\* detect_omega_pattern
UnitOmega ==
    /\ pc = "unit"
    /\ probe.kind = "candidate"
    /\ probe_out' = [kind |-> "omega",
                     is_omega |-> detect_omega_pattern(probe.data.image,
                                                       probe.data.w, probe.data.h)]
    /\ UnitFrame

\* split_touching_characters on a line of one candidate
UnitSplit ==
    /\ pc = "unit"
    /\ probe.kind = "candidate"
    /\ probe_out' = [kind |-> "split",
                     processed |-> split_touching_characters(<<probe.data>>)]
    /\ UnitFrame

\* detect_text_regions; the masks carry ink, so np.percentile has values
UnitDetectTextRegions ==
    /\ pc = "unit"
    /\ variant = "improved"
    /\ probe.kind \in {"mask", "edge"}
    /\ probe_out' = [kind |-> "lines",
                     lines |-> detect_text_regions(probe.image, numpy_empty).lines]
    /\ UnitFrame

\* find_text_lines
UnitFindTextLines ==
    /\ pc = "unit"
    /\ variant = "fix"
    /\ probe.kind \in {"mask", "edge"}
    /\ probe_out' = [kind |-> "lines", lines |-> find_text_lines(probe.image)]
    /\ UnitFrame

\* detect_lines
UnitDetectLines ==
    /\ pc = "unit"
    /\ variant = "pipeline"
    /\ probe.kind \in {"mask", "edge"}
    /\ probe_out' = [kind |-> "lines", lines |-> detect_lines(probe.image)]
    /\ UnitFrame

\* the quality filter of segment_characters_advanced (lines 176-177) and
\* save_improved_characters on what it lets through
UnitFilterAndSave ==
    /\ pc = "unit"
    /\ variant = "improved"
    /\ probe.kind = "glyphs"
    /\ probe_out' = [kind |-> "saved",
                     output |-> save_improved_characters(NoOutput,
                                   SelectSeq(probe.glyphs,
                                             LAMBDA c : improved_keeps(c.quality_score)),
                                   1)]
    /\ UnitFrame

\* save_characters of fix_character_extraction.py
UnitSaveCharacters ==
    /\ pc = "unit"
    /\ variant = "fix"
    /\ probe.kind = "glyphs"
    /\ probe_out' = [kind |-> "saved",
                     output |-> fix_save_characters(NoOutput, probe.glyphs, 1)]
    /\ UnitFrame

\* the polarity step of the variant's Preprocessor
UnitPolarity ==
    /\ pc = "unit"
    /\ probe.kind = "scan"
    /\ probe_out' = [kind |-> "polar",
                     image |-> CASE variant = "improved" -> improved_polarity(probe.image)
                                 [] variant = "fix" -> fix_polarity(probe.image)
                                 [] OTHER -> pipeline_polarity(probe.image)]
    /\ UnitFrame

\* the Line Detector and the Character Segmenter of the variant, one after
\* the other, on a binarized page
UnitExtractCharacters ==
    /\ pc = "unit"
    /\ variant \in {"improved", "fix"}
    /\ probe.kind = "page"
    /\ LET found == IF variant = "improved"
                    THEN detect_text_regions(probe.image, numpy_empty).lines
                    ELSE find_text_lines(probe.image)
       IN  probe_out' = [kind |-> "extracted",
                         lines |-> found,
                         characters |->
                            IF variant = "improved"
                            THEN segment_characters_advanced(probe.image, found)
                            ELSE fix_all_characters(probe.image, found, 0, 0)]
    /\ UnitFrame

\* a later run over the same page, after the image or the thresholds have
\* changed: the variant's Persister writes the glyphs of the new run into
\* the directory the earlier run left.  main of fix_character_extraction.py
\* saves only "if characters"
UnitRunAgain ==
    /\ pc = "applied"
    /\ probe_out.kind = "saved"
    /\ \E later \in {g.glyphs : g \in ProbeGlyphs(variant)} \cup {<< >>} :
          probe_out' =
             [kind |-> "saved again",
              earlier |-> probe_out.output,
              output |->
                 IF variant = "improved"
                 THEN save_improved_characters(probe_out.output,
                          SelectSeq(later, LAMBDA c : improved_keeps(c.quality_score)), 1)
                 ELSE IF later = << >> THEN probe_out.output
                 ELSE fix_save_characters(probe_out.output, later, 1)]
    /\ pc' = "applied again"
    /\ UNCHANGED toolchain
    /\ UNCHANGED <<variant, numpy_empty, dir, run, idx, pre, binary, lines,
                   all_characters, characters, disk, snapshot, log, probe>>

NextUnit ==
    \/ UnitRunAgain
    \/ UnitExtractCharacters
    \/ UnitPolarity
    \/ UnitFilterAndSave
    \/ UnitSaveCharacters
    \/ UnitQualityScore
    \/ UnitQuality
    \/ UnitOmega
    \/ UnitSplit
    \/ UnitDetectTextRegions
    \/ UnitFindTextLines
    \/ UnitDetectLines

SpecUnit == InitUnit /\ [][NextUnit]_vars

(***************************************************************************)
(* Properties                                                              *)
(***************************************************************************)
\* the bounding box a glyph record carries, as the Persister writes it
BBoxOf(g) ==
    IF variant = "fix"
    THEN [x |-> g.x, y |-> g.global_y, width |-> g.w, height |-> g.h]
    ELSE [x |-> g.x, y |-> g.y, width |-> g.width, height |-> g.height]

InsidePage(b, i) ==
    /\ 0 <= b.x
    /\ 0 <= b.y
    /\ b.x + b.width <= PageWidth(i)
    /\ b.y + b.height <= PageHeight(i)

\* the crop of line k (counted from 1) of the current mask
LineCrop(k) == Crop(binary, lines[k][1], lines[k][2], 0, binary.w)

\* the components of line k that pass the gates of segment_characters_advanced
GatedComponents(k) ==
    SelectSeq(ComponentsOf(LineCrop(k).ink), LAMBDA c : improved_gates(Stats(c)))

\* a component alone in its bounding box: ink where its label is
OwnBitmap(c) ==
    [h |-> Stats(c).h, w |-> Stats(c).w,
     ink |-> {<<p[1] - Stats(c).y, p[2] - Stats(c).x>> : p \in c}]

\* a bitmap without its border of pad pixels
Unpad(img, pad) == Crop(img, pad, img.h - pad, pad, img.w - pad)

\* glyph g was made from component c of line k
GlyphOf(g, c, k) ==
    /\ g.line = k - 1
    /\ g.x = Stats(c).x
    /\ g.y = lines[k][1] + Stats(c).y
    /\ g.width = Stats(c).w
    /\ g.height = Stats(c).h

\* C1: every glyph of every variant, as segmented and as recorded in
\* metadata, has 0 <= x, 0 <= y, x + width <= page width and
\* y + height <= page height, y being the line's start row plus the row
\* offset inside the line crop (so the box lies below the line's start).
C1_BoxInsidePage ==
    /\ pc = "save" =>
          \A k \in 1 .. Len(all_characters) :
              /\ InsidePage(BBoxOf(all_characters[k]), idx)
              /\ lines[all_characters[k].line + 1][1] <= BBoxOf(all_characters[k]).y
    /\ \A i \in 1 .. Len(disk) :
          \A k \in 1 .. Len(disk[i].metadata) : InsidePage(disk[i].metadata[k].bbox, i)

\* a finished run that recorded two glyphs or more for some page
C1_Witness ==
    /\ pc = "done"
    /\ \E i \in 1 .. Len(disk) : Len(disk[i].metadata) >= 2

\* C2: a padded bitmap with no ink at all scores no more than 0.3 and is
\* excluded by the scoring variant's filter.
C2_BlankBitmapExcluded ==
    (pc = "applied" /\ probe.kind = "bitmap" /\ probe.image.ink = {}) =>
        /\ ~ScoreGT(probe_out.quality_score, quality_threshold)
        /\ ~probe_out.kept

\* C3: in the combined mask of preprocess_advanced every pixel is 0 or 255
\* and is ink only if all three scales mark it as ink.
C3_InkOnlyIfAllScalesAgree ==
    (variant = "improved" /\ pc = "detect") =>
        \A p \in Pixels(pre.combined.h, pre.combined.w) :
            /\ Val(pre.combined, p) \in {INK, WHITE}
            /\ Val(pre.combined, p) = INK =>
                  /\ Val(Page.bin1, p) = INK
                  /\ Val(Page.bin2, p) = INK
                  /\ Val(Page.bin3, p) = INK

\* C4: for every component that passes the gates, the glyph bitmap before
\* padding has ink exactly where the box carries the component's label and
\* background everywhere else in the box.
C4_NeighboursMaskedOut ==
    (variant = "improved" /\ pc = "save") =>
        \A k \in 1 .. Len(lines) :
            \A j \in 1 .. Len(GatedComponents(k)) :
                \E n \in 1 .. Len(all_characters) :
                    /\ GlyphOf(all_characters[n], GatedComponents(k)[j], k)
                    /\ Unpad(all_characters[n].image, improved_pad)
                           = OwnBitmap(GatedComponents(k)[j])

\* C5: when a run over a directory with an unreadable image has ended,
\* nothing was written for the unreadable page and every readable page
\* that has ink was persisted.
C5_UnreadablePageSkipped ==
    (pc \in {"done", "crashed"} /\ \E i \in 1 .. Len(dir) : ~Catalogue[dir[i]].readable) =>
        \A i \in 1 .. Len(dir) :
            IF ~Catalogue[dir[i]].readable
            THEN disk[i] = NoOutput
            ELSE disk[i].has_metadata \/ Catalogue[dir[i]].bin.ink = {}

\* C6: on a mask without ink the Line Detector does not raise and returns
\* no line, and the page yields no glyph.
C6_BlankMaskYieldsNothing ==
    LET blank == binary.h > 0 /\ binary.ink = {}
    IN  /\ ~(pc = "crashed" /\ Page.readable /\ blank)
        /\ (pc \in {"segment", "save"} /\ blank) => lines = << >>
        /\ (pc = "save" /\ blank) => characters = << >>

\* C7: the TextLines of a page are in top-to-bottom order of start row.
C7_LinesTopToBottom ==
    \A k \in 1 .. Len(lines) - 1 : lines[k][1] <= lines[k + 1][1]

\* a page on which the Line Detector found two lines or more
C7_Witness == Len(lines) >= 2

\* C8: a second run over the unchanged directory leaves exactly the files
\* and metadata (ids, lines, boxes, scores, names) the first run left.
C8_SecondRunSameOutput ==
    (run >= 2 /\ pc \in {"done", "crashed"}) => disk = snapshot

\* a second run that ended normally with glyphs on disk
C8_Witness ==
    /\ run >= 2
    /\ pc = "done"
    /\ \E i \in 1 .. Len(disk) : disk[i].metadata # << >>

\* C9: a gated component at least 1.3 times as wide as high whose own ink
\* falls into 2 or 3 parts under one erosion with the 3x3 ellipse is
\* emitted as one glyph with is_omega = TRUE.
C9_OmegaFlagged ==
    (variant = "improved" /\ pc = "save") =>
        \A k \in 1 .. Len(lines) :
            \A j \in 1 .. Len(GatedComponents(k)) :
                LET c == GatedComponents(k)[j]
                    parts == NumComponents(bitwise_not(
                                 erode(bitwise_not(OwnBitmap(c)), Ellipse3)))
                IN  (10 * Stats(c).w >= 13 * Stats(c).h /\ parts \in 2 .. 3) =>
                        \E n \in 1 .. Len(all_characters) :
                            /\ GlyphOf(all_characters[n], c, k)
                            /\ all_characters[n].is_omega

\* the candidate's projection dips, in the middle third of its columns, to
\* 30% of the projection's maximum or less
HasValley(d) ==
    LET v == ColProjection(d.image)
        top == SetMax({v[c] : c \in 1 .. d.w})
    IN  \E c \in (d.w \div 3) + 1 .. (2 * d.w) \div 3 : 10 * v[c] <= 3 * top

\* C10: a non-omega candidate with width/height > 1.8 and such a valley is
\* replaced by two glyphs: the left keeps x and is cut wide, the right
\* starts at x + cut and is w - cut wide, both keep y and h.
C10_ValleySplitsInTwo ==
    (/\ pc = "applied"
     /\ probe_out.kind = "split"
     /\ ~probe.data.is_omega
     /\ 5 * probe.data.w > 9 * probe.data.h
     /\ HasValley(probe.data)) =>
        LET d == probe.data
            out == probe_out.processed
        IN  /\ Len(out) = 2
            /\ \E cut \in d.w \div 3 .. (2 * d.w) \div 3 - 1 :
                  /\ out[1].x = d.x /\ out[1].w = cut
                  /\ out[2].x = d.x + cut /\ out[2].w = d.w - cut
            /\ \A n \in 1 .. 2 : out[n].y = d.y /\ out[n].h = d.h

\* C11: a candidate with width/height <= 1.8 (1.8 included) or flagged
\* is_omega comes out of split_touching_characters exactly once, with the
\* same x, y, w, h, image and flag, whatever its projection.
C11_OthersUntouched ==
    (/\ pc = "applied"
     /\ probe_out.kind = "split"
     /\ (5 * probe.data.w <= 9 * probe.data.h \/ probe.data.is_omega)) =>
        LET d == probe.data
            out == probe_out.processed
        IN  /\ Len(out) = 1
            /\ out[1].x = d.x /\ out[1].y = d.y
            /\ out[1].w = d.w /\ out[1].h = d.h
            /\ out[1].image = d.image
            /\ out[1].is_omega = d.is_omega

\* a candidate exactly 1.8 times as wide as high, not an omega, with an
\* all-white valley in its middle third, passed through unsplit
C11_Witness ==
    /\ pc = "applied"
    /\ probe_out.kind = "split"
    /\ 5 * probe.data.w = 9 * probe.data.h
    /\ ~probe.data.is_omega
    /\ HasValley(probe.data)
    /\ Len(probe_out.processed) = 1

\* the lines found on a band mask: as many as there are bands, the i-th
\* interval holding every row of the i-th band
BandsFound ==
    /\ Len(probe_out.lines) = probe.bands
    /\ \A i \in 1 .. probe.bands :
          /\ probe_out.lines[i][1] <= BandStart(i, probe.band_height)
          /\ BandStart(i, probe.band_height) + probe.band_height <= probe_out.lines[i][2]

C13_LowScoresNeverWritten ==
    (pc = "applied" /\ probe_out.kind = "saved") =>
        /\ \A k \in 1 .. Len(probe_out.output.metadata) :
              ScoreGT(probe_out.output.metadata[k].quality, quality_threshold)
        /\ \A k \in 1 .. Len(probe.glyphs) :
              ScoredName(probe.glyphs[k]) \in probe_out.output.pngs =>
                  ScoreGT(probe.glyphs[k].quality_score, quality_threshold)

\* C14: the score of every bitmap lies in [0, 1], for both scorers.
C14_ScoreInUnitInterval ==
    (pc = "applied" /\ probe_out.kind = "score") =>
        /\ probe_out.quality_score.num >= 0
        /\ probe_out.quality_score.num <= probe_out.quality_score.den

\* C15: every glyph carries the index of one detected line, 0 <= line <
\* number of lines, and the rows of its box lie inside that line:
\* line.start <= y and y + height <= line.end.
C15_BoxInsideItsLine ==
    pc = "save" =>
        \A k \in 1 .. Len(all_characters) :
            LET g == all_characters[k]
            IN  /\ 0 <= g.line
                /\ g.line < Len(lines)
                /\ lines[g.line + 1][1] <= BBoxOf(g).y
                /\ BBoxOf(g).y + BBoxOf(g).height <= lines[g.line + 1][2]

\* a page of two lines: some glyph belongs to the second one and begins
\* below that line's first row
C15_Witness ==
    /\ pc = "save"
    /\ \E k \in 1 .. Len(all_characters) :
          /\ all_characters[k].line = 1
          /\ lines[2][1] < BBoxOf(all_characters[k]).y

\* the glyphs of the page at hand that pass the variant's cutoff
Accepted ==
    IF variant = "fix"
    THEN SelectSeq(characters, LAMBDA c : fix_keeps(c.quality_score))
    ELSE characters

\* the name under which the variant's Persister stores glyph c
NameOf(c) == IF variant = "pipeline" THEN PlainName(c) ELSE ScoredName(c)

\* entry e of metadata.json holds what is to be recorded of glyph c
HoldsAll(e, c, source_name) ==
    /\ {"file", "source_image", "line", "bbox", "quality"} \subseteq DOMAIN e
    /\ e.file = NameOf(c)
    /\ e.source_image = source_name
    /\ e.line = c.line
    /\ e.bbox = BBoxOf(c)
    /\ e.quality = c.quality_score

\* the Persister wrote glyph c of page i as one PNG and one full entry
WrittenOnce(c, i) ==
    /\ NameOf(c) \in disk[i].pngs
    /\ Cardinality({k \in 1 .. Len(disk[i].metadata) :
                       disk[i].metadata[k].id = c.id}) = 1
    /\ \A k \in 1 .. Len(disk[i].metadata) :
          disk[i].metadata[k].id = c.id => HoldsAll(disk[i].metadata[k], c, i)

\* C16: once the Persister has run for a page, each accepted glyph of the
\* page has exactly one PNG and exactly one metadata entry, which holds its
\* file name, source image name, line index, box and quality score.  Stated
\* for the last page of a run, whose glyphs are still at hand at the end.
C16_AcceptedWrittenOnce ==
    pc = "done" =>
        /\ \A k \in 1 .. Len(Accepted) : WrittenOnce(Accepted[k], idx)
        /\ \A j, k \in 1 .. Len(Accepted) :
              NameOf(Accepted[j]) = NameOf(Accepted[k]) => j = k

\* the pages whose result record this run of pipeline.py has appended
Returned == 1 .. Len(results)

\* C19: in pipeline.py a failure of potrace, be it missing or failing on
\* single glyphs, ends nothing: it is reported as a warning, the page's
\* result record is still returned, no font is assembled when there is no
\* vector directory, and main goes on to write pipeline_results.json with
\* one record for every page.
C19_PotraceFailureTolerated ==
    variant = "pipeline" =>
        /\ pc = "crashed" => ~Page.readable
        /\ Len(results) = IF pc \in {"summary", "done", "read"} THEN Len(dir) ELSE idx - 1
        /\ \A i \in Returned :
              /\ results[i].source = i
              /\ potrace = "installed" =>
                    /\ results[i].vector_dir # << >>
                    /\ \A f \in vectors[i].pbms : <<i, "potrace failed", f>> \in warnings
              /\ (potrace = "missing" /\ disk[i].pngs # {}) =>
                    /\ <<i, "potrace not found">> \in warnings
                    /\ results[i].vector_dir = << >>
                    /\ i \notin fonts
        /\ pc = "done" => summary = <<results>>

\* a run over two pages that is done although potrace failed on the first
C19_Witness ==
    /\ variant = "pipeline"
    /\ pc = "done"
    /\ Len(dir) = 2
    /\ \E w \in warnings : w[1] = 1
    /\ Len(summary[1]) = 2

\* the four stages of a page in improved_extraction.py and pipeline.py
Stages == <<"preprocess", "detect", "segment", "save">>

\* what the run's log says of these stages
StageLog == SelectSeq(log, LAMBDA e : \E k \in 1 .. Len(Stages) : e[2] = Stages[k])

\* C17: in improved_extraction.py and pipeline.py the stages of a page run
\* once each, in the order Preprocessor, Line Detector, Segmenter,
\* Persister; the pages are taken in the order of the sorted listing, and
\* the Persister of a page is through before the Preprocessor of the next
\* page starts.  A run that is done has run all four stages of every page.
C17_StagesInOrder ==
    variant \in {"improved", "pipeline"} =>
        /\ \A k \in 1 .. Len(StageLog) :
              StageLog[k] = <<((k - 1) \div Len(Stages)) + 1,
                              Stages[((k - 1) % Len(Stages)) + 1]>>
        /\ pc = "done" => Len(StageLog) = Len(Stages) * Len(dir)

\* a run over two pages that is done
C17_Witness ==
    /\ variant \in {"improved", "pipeline"}
    /\ pc = "done"
    /\ Len(dir) = 2
    /\ StageLog[Len(Stages) + 1] = <<2, "preprocess">>

\* the glyph files and metadata the variant leaves for a page when the page
\* is processed on its own, under the name source_name
Alone(page, source_name) ==
    CASE variant = "improved" ->
            LET b == preprocess_advanced(page)
                l == detect_text_regions(b, numpy_empty).lines
            IN  save_improved_characters(NoOutput, segment_characters_advanced(b, l),
                                         source_name)
      [] variant = "fix" ->
            LET b == fix_preprocess(page)
                c == fix_all_characters(b, find_text_lines(b), 0, 0)
            IN  IF c = << >> THEN NoOutput
                ELSE fix_save_characters(NoOutput, c, source_name)
      [] OTHER ->
            LET b == preprocess_image(page)
            IN  pipeline_save_characters(NoOutput, segment_characters(b, detect_lines(b)),
                                         source_name)

\* the turn of the loop for page i is through in this run
Processed(i) ==
    \/ \E k \in 1 .. Len(log) : log[k] = <<i, "save">>
    \/ variant = "fix" /\ (i < idx \/ pc = "done") /\ Catalogue[dir[i]].readable

\* what page i has written outside its own directory glyphs/<stem>/
WrittenBeside(i) ==
    (IF disk[i].preprocessed THEN {"preprocessed.png"} ELSE {})
    \cup (IF i \in fonts THEN {"CodexSinaiticusSample.ttf"} ELSE {})

\* the glyphs of a page are numbered from 0; when the run is over, the files
\* and metadata of every page it processed are those of the page processed
\* alone; and before its turn a page has no files
PageOutputIndependent ==
    /\ pc = "save" => \A k \in 1 .. Len(all_characters) : all_characters[k].id = k - 1
    /\ \A i \in 1 .. Len(disk) :
          IF Processed(i)
          THEN pc \in {"done", "crashed"} =>
                  LET alone == Alone(Catalogue[dir[i]], i)
                  IN  /\ disk[i].pngs = alone.pngs
                      /\ disk[i].metadata = alone.metadata
          ELSE run = 1 => (disk[i].pngs = {} /\ disk[i].metadata = << >>)

\* C18, as claimed: the glyphs, file names and metadata of a page are the
\* same whatever other pages the run processes, glyph ids restart at 0 for
\* every page, and a page writes only inside its own output directory.
C18_PagesIndependent ==
    /\ PageOutputIndependent
    /\ \A i \in 1 .. Len(disk) : WrittenBeside(i) = {}

\* C18, as the code has it: the glyphs, file names and metadata of a page
\* are the same whatever other pages the run processes and glyph ids
\* restart at 0 for every page; what a page writes outside its own
\* directory is its preprocessed image and the sample font.
C18_GlyphOutputIndependent ==
    /\ PageOutputIndependent
    /\ \A i \in 1 .. Len(disk) :
          WrittenBeside(i) \subseteq {"preprocessed.png", "CodexSinaiticusSample.ttf"}

\* a run over two different pages, both with glyphs, is done
C18_Witness ==
    /\ pc = "done"
    /\ Len(dir) = 2
    /\ Processed(1) /\ Processed(2)
    /\ disk[1].metadata # << >>
    /\ disk[2].metadata # << >>
    /\ Alone(Catalogue[dir[1]], 2).metadata # disk[2].metadata

\* C20: every script that reads metadata.json accepts the document the
\* Persisters write, an object with the keys source_image and characters,
\* and takes each glyph's file, box and quality from the records of
\* characters.
C20_ReadersAcceptDocument ==
    pc = "read" =>
        /\ ~probe_out.raised
        /\ probe_out.reader = "prepare_review_letters" =>
              \A i \in 1 .. Len(disk) :
                 \A k \in 1 .. Len(disk[i].metadata) :
                    [file |-> disk[i].metadata[k].file,
                     quality |-> QualityPercent(disk[i].metadata[k].quality),
                     bbox |-> <<disk[i].metadata[k].bbox>>] \in probe_out.letters[i]

\* the minimum run length of the variant's row scan
MinRun == IF variant = "improved" THEN improved_min_line_height ELSE fix_min_line_height

\* the runs of the probed mask that are long enough
LongRuns == {span \in Runs(above_threshold(variant, probe.image)) : span[2] - span[1] >= MinRun}

\* the TextLine of a run
Padded(span, height) == <<Max2(0, span[1] - line_pad), Min2(height, span[2] + line_pad)>>

\* C21: the row scan of detect_text_regions and find_text_lines emits one
\* TextLine for every maximal run of rows above the threshold that is at
\* least the minimum run length long, a run that reaches the last row of
\* the page included, and nothing for shorter runs.
C21_OneLinePerLongRun ==
    (pc = "applied" /\ probe_out.kind = "lines" /\ variant \in {"improved", "fix"}) =>
        /\ Len(probe_out.lines) = Cardinality(LongRuns)
        /\ \A span \in LongRuns :
              \E k \in 1 .. Len(probe_out.lines) :
                 probe_out.lines[k] = Padded(span, probe.image.h)

\* C22: every TextLine of detect_text_regions and find_text_lines is
\* (max(0, s - 5), min(page height, e + 5)) for a detected run [s, e), so
\* that 0 <= start < end <= page height and end - start is at least the
\* minimum run length.
C22_LinesArePaddedRuns ==
    (pc = "applied" /\ probe_out.kind = "lines" /\ variant \in {"improved", "fix"}) =>
        \A k \in 1 .. Len(probe_out.lines) :
            /\ \E span \in LongRuns : probe_out.lines[k] = Padded(span, probe.image.h)
            /\ 0 <= probe_out.lines[k][1]
            /\ probe_out.lines[k][1] < probe_out.lines[k][2]
            /\ probe_out.lines[k][2] <= probe.image.h
            /\ probe_out.lines[k][2] - probe_out.lines[k][1] >= MinRun

\* a run that begins on the first row of the page: its line starts at row 0
\* and ends 5 rows below the run
C22_Witness ==
    /\ pc = "applied"
    /\ probe_out.kind = "lines"
    /\ variant \in {"improved", "fix"}
    /\ probe.kind = "edge"
    /\ probe.place = "top"
    /\ Len(probe_out.lines) = 1
    /\ probe_out.lines[1][1] = 0
    /\ \E span \in LongRuns : span[1] = 0 /\ probe_out.lines[1][2] = span[2] + line_pad

\* the components of line k that became a glyph of improved_extraction.py
\* as they are, with the box of the component
TakenComponents(k) ==
    SelectSeq(ComponentsOf(LineCrop(k).ink),
              LAMBDA c : \E n \in 1 .. Len(all_characters) :
                            /\ all_characters[n].line = k - 1
                            /\ all_characters[n].x = Stats(c).x
                            /\ all_characters[n].y = lines[k][1] + Stats(c).y
                            /\ all_characters[n].width = Stats(c).w
                            /\ all_characters[n].height = Stats(c).h)

\* C23: every glyph candidate made from a connected component passed the
\* size gates: in improved_extraction.py 5 <= w <= 150, 10 <= h <= 150,
\* area >= 50 and 0.2 <= w/h <= 3, in fix_character_extraction.py
\* 8 <= w <= 200, 8 <= h <= 200, area >= 40 and 0.15 <= w/h <= 4; and the
\* background is never a glyph: a glyph's component has ink.
C23_CandidatesPassedGates ==
    /\ (variant = "improved" /\ pc = "save") =>
          \A k \in 1 .. Len(lines) :
             \A j \in 1 .. Len(TakenComponents(k)) :
                LET st == Stats(TakenComponents(k)[j])
                IN  /\ 5 <= st.w /\ st.w <= 150
                    /\ 10 <= st.h /\ st.h <= 150
                    /\ st.area >= 50
                    /\ st.h <= 5 * st.w /\ st.w <= 3 * st.h
                    /\ TakenComponents(k)[j] # {}
                    /\ TakenComponents(k)[j] \subseteq LineCrop(k).ink
    /\ (variant = "fix" /\ pc = "save") =>
          \A n \in 1 .. Len(all_characters) :
             LET g == all_characters[n]
             IN  /\ 8 <= g.w /\ g.w <= 200
                 /\ 8 <= g.h /\ g.h <= 200
                 /\ g.area >= 40
                 /\ 3 * g.h <= 20 * g.w /\ g.w <= 4 * g.h
                 /\ Crop(binary, g.global_y, g.global_y + g.h, g.x, g.x + g.w).ink # {}

\* a line of improved_extraction.py with a component that became a glyph
\* and a component that was turned away
C23_Witness ==
    /\ variant = "improved"
    /\ pc = "save"
    /\ \E k \in 1 .. Len(lines) :
          /\ Len(TakenComponents(k)) >= 1
          /\ Len(TakenComponents(k)) < Len(ComponentsOf(LineCrop(k).ink))

C25_NoMoreBlackThanWhite ==
    (pc = "applied" /\ probe_out.kind = "polar") =>
        2 * Cardinality(probe_out.image.ink) <= probe_out.image.h * probe_out.image.w

\* the index in the name of a glyph file
IndexOf(name) == name[2]

\* C26: the PNG files of a page are named by a sequential index: the n
\* glyphs written for the page carry the indices 0, 1, ..., n - 1, without
\* gaps and without repetition, so that no two share a file name.
C26_SequentialFileIndices ==
    (pc = "applied" /\ probe_out.kind = "saved") =>
        LET written == probe_out.output
        IN  /\ {IndexOf(name) : name \in written.pngs} = 0 .. Len(written.metadata) - 1
            /\ \A k \in 1 .. Len(written.metadata) :
                  written.metadata[k].file \in written.pngs
            /\ \A j, k \in 1 .. Len(written.metadata) :
                  IndexOf(written.metadata[j].file) = IndexOf(written.metadata[k].file)
                      => j = k

\* the ink of the page's mask inside box b, as <<row, column>> of the page
InkIn(b) ==
    {p \in binary.ink : /\ b.y <= p[1] /\ p[1] < b.y + b.height
                        /\ b.x <= p[2] /\ p[2] < b.x + b.width}

\* C27: the box recorded for a glyph is the smallest upright rectangle that
\* holds the glyph's ink: its first and last row and its first and last
\* column each hold an ink pixel.
C27_BoxIsMinimal ==
    pc = "save" =>
        \A k \in 1 .. Len(all_characters) :
            LET b == BBoxOf(all_characters[k])
            IN  /\ \E p \in InkIn(b) : p[1] = b.y
                /\ \E p \in InkIn(b) : p[1] = b.y + b.height - 1
                /\ \E p \in InkIn(b) : p[2] = b.x
                /\ \E p \in InkIn(b) : p[2] = b.x + b.width - 1

\* the number a string of decimal digits stands for
RECURSIVE DecimalValue(_)
DecimalValue(digits) ==
    IF digits = << >> THEN 0
    ELSE 10 * DecimalValue(SubSeq(digits, 1, Len(digits) - 1)) + digits[Len(digits)]

\* the PNGs the review script finds, each with its directory
FoundPngs == UNION {{<<i, f>> : f \in disk[i].pngs} : i \in 1 .. Len(disk)}

\* the records of metadata.json in directory i that list a box for PNG f
BoxesListed(i, f) ==
    IF ~disk[i].has_metadata THEN {}
    ELSE {disk[i].metadata[k].bbox :
             k \in {j \in 1 .. Len(disk[i].metadata) :
                       /\ disk[i].metadata[j].file = f
                       /\ "bbox" \in DOMAIN disk[i].metadata[j]}}

\* C28: the manifest of prepare_review_letters_with_bbox is a one-to-one
\* renaming of the glyph PNGs: every PNG of a glyph directory is copied to
\* exactly one letter, the ids are 0..N-1 in non-increasing quality order,
\* the file name is letter_<id padded to 5 digits>, and an entry carries a
\* bbox exactly when metadata.json lists one for the PNG it was copied from,
\* and then it is that box
C28_ManifestRenamesPngs ==
    (probe_out.kind = "read" /\ probe_out.reader = "prepare_review_letters"
        /\ ~probe_out.raised) =>
        LET letters == probe_out.manifest.letters
            copied == probe_out.manifest.copied
            N == Len(letters)
        IN  /\ {copied[k] : k \in 1 .. N} = FoundPngs
            /\ N = Cardinality(FoundPngs)
            /\ \A k \in 1 .. N :
                  /\ letters[k].id = k - 1
                  /\ Len(letters[k].filename) = 6
                  /\ letters[k].filename[1] = "letter"
                  /\ DecimalValue(Tail(letters[k].filename)) = letters[k].id
                  /\ k < N => letters[k].quality >= letters[k + 1].quality
                  /\ "bbox" \in DOMAIN letters[k]
                        <=> BoxesListed(copied[k][1], copied[k][2]) # {}
                  /\ "bbox" \in DOMAIN letters[k]
                        => BoxesListed(copied[k][1], copied[k][2]) = {letters[k].bbox}

\* a manifest of letters of two directories and of different quality, all
\* with their boxes
C28_Witness ==
    /\ probe_out.kind = "read" /\ probe_out.reader = "prepare_review_letters"
    /\ ~probe_out.raised
    /\ LET letters == probe_out.manifest.letters
       IN  /\ Len(letters) >= 3
           /\ letters[1].quality > letters[Len(letters)].quality
           /\ \E j, k \in 1 .. Len(letters) : letters[j].source # letters[k].source
           /\ \A k \in 1 .. Len(letters) : "bbox" \in DOMAIN letters[k]

\* the page rows and the size of the box of glyph g of a probed page
ProbeBox(g) ==
    IF variant = "fix" THEN [y |-> g.global_y, w |-> g.w, h |-> g.h]
    ELSE [y |-> g.y, w |-> g.width, h |-> g.height]

\* the ink of the probed page that went into glyph g: the components of its
\* line's crop that have its box, in page coordinates
ProbeInkOf(g) ==
    LET y1 == probe_out.lines[g.line + 1][1]
        y2 == probe_out.lines[g.line + 1][2]
        comps == ComponentsOf(Crop(probe.image, y1, y2, 0, probe.image.w).ink)
        b == ProbeBox(g)
    IN  UNION {{<<p[1] + y1, p[2]>> : p \in comps[j]} :
                 j \in {i \in 1 .. Len(comps) :
                           /\ Stats(comps[i]).x = g.x
                           /\ Stats(comps[i]).y + y1 = b.y
                           /\ Stats(comps[i]).w = b.w
                           /\ Stats(comps[i]).h = b.h}}

\* C29: no connected ink component of a page gives rise to glyphs in two
\* different TextLines: where the padding makes two line intervals overlap,
\* ink in the shared rows goes into the glyphs of at most one line.
C29_OneLinePerComponent ==
    probe_out.kind = "extracted" =>
        LET page == ComponentsOf(probe.image.ink)
            glyphs == probe_out.characters
        IN  \A j \in 1 .. Len(page) :
               \A m, n \in 1 .. Len(glyphs) :
                  (/\ ProbeInkOf(glyphs[m]) \cap page[j] # {}
                   /\ ProbeInkOf(glyphs[n]) \cap page[j] # {})
                     => glyphs[m].line = glyphs[n].line

\* the files that the metadata.json of an output directory lists
ListedFiles(out) ==
    IF out.has_metadata THEN {out.metadata[k].file : k \in 1 .. Len(out.metadata)}
    ELSE {}

\* C30: after any sequence of runs over the same page, also when the image
\* or the thresholds changed in between or a later run accepts fewer or no
\* glyphs, the glyph PNGs present in the page's output directory are
\* exactly the files that its current metadata.json lists: no PNG of an
\* earlier run survives unlisted.
C30_PngsAreTheListedFiles ==
    probe_out.kind \in {"saved", "saved again"} =>
        probe_out.output.pngs = ListedFiles(probe_out.output)
=============================================================================
